---- MODULE Spec2Model ----
\* OLED animation subsystem of dmyoung9/qmk_userspace:
\*   - the low-level animator          (oled_anim.c, animator_start/reverse/step)
\*   - the binary toggle controller    (oled_anim.c, toggle_anim_set/render)
\*   - the exclusive-state controller  (oled_anim.c, layer_tr_request/render)
\*   - the declarative widget          (oled_declarative.c, widget_tick)
\* Every controller is a C struct, modelled as a record; every API function
\* is an operator over that record, and an action applies it.  The variable
\*   - the one-shot, out-and-back and boot-reverse controllers (oled_anim.c)
\*   - the unified controller          (oled_unified_anim.c)
\* unit says which controller instance a behaviour drives; the structs of
\* the other controllers stay as constructed.
EXTENDS Integers, Sequences, FiniteSets, TLC

VARIABLES unit, now, elapsed, a, tog, lt, w, os, ob, br, un, qt, qw, ts, rgb, disp, h

vars == <<unit, now, elapsed, a, tog, lt, w, os, ob, br, un, qt, qw, ts, rgb, disp, h>>

(***************************************************************************)
(* Program constants                                                       *)
(***************************************************************************)
ANIM_FRAME_MS == 80
WIDGET_WATCHDOG_TIMEOUT_MS == 1000
WIDGET_WATCHDOG_GRACE_MS == 500
NO_PENDING == 255

ANIM_RUNNING       == "ANIM_RUNNING"
ANIM_DONE_AT_START == "ANIM_DONE_AT_START"
ANIM_DONE_AT_END   == "ANIM_DONE_AT_END"

TR_IDLE  == "TR_IDLE"
TR_EXIT  == "TR_EXIT"
TR_ENTER == "TR_ENTER"

TOG_IDLE_OFF == "TOG_IDLE_OFF"
TOG_ENTERING == "TOG_ENTERING"
TOG_IDLE_ON  == "TOG_IDLE_ON"
TOG_EXITING  == "TOG_EXITING"

ONESHOT_IDLE      == "ONESHOT_IDLE"
ONESHOT_BOOT      == "ONESHOT_BOOT"
ONESHOT_TRIGGERED == "ONESHOT_TRIGGERED"

OUTBACK_IDLE == "OUTBACK_IDLE"
OUTBACK_BOOT == "OUTBACK_BOOT"
OUTBACK_OUT  == "OUTBACK_OUT"
OUTBACK_BACK == "OUTBACK_BACK"

BOOTREV_IDLE == "BOOTREV_IDLE"
BOOTREV_BOOT == "BOOTREV_BOOT"
BOOTREV_OUT  == "BOOTREV_OUT"
BOOTREV_BACK == "BOOTREV_BACK"

ANIM_ONESHOT          == "ANIM_ONESHOT"
ANIM_OUTBACK          == "ANIM_OUTBACK"
ANIM_TOGGLE           == "ANIM_TOGGLE"
ANIM_BOOTREV          == "ANIM_BOOTREV"
ANIM_LAYER_TRANSITION == "ANIM_LAYER_TRANSITION"

STEADY_FIRST == "STEADY_FIRST"
STEADY_LAST  == "STEADY_LAST"

PHASE_IDLE    == "PHASE_IDLE"
PHASE_BOOT    == "PHASE_BOOT"
PHASE_FORWARD == "PHASE_FORWARD"
PHASE_REVERSE == "PHASE_REVERSE"

ENTER_FWD == 1
ENTER_REV == -1

(***************************************************************************)
(* Bounds of the model                                                     *)
(***************************************************************************)
MaxCount == 4            \* longest frame sequence
NumStates == 3           \* state_count of the layer controller / widget
MaxElapsedAnim == 400    \* injected time given to the animator, ms
MaxElapsedToggle == 660  \* injected time given to the toggle, ms
MaxElapsedLayer == 480   \* injected time given to the layer controller, ms
MaxElapsedWidget == 640   \* injected time given to the widget, ms
MaxElapsedWatchdog == 1920 \* injected time given to the widget in the watchdog runs, ms
MaxElapsedTrig == 1000    \* injected time given to a triggered controller, ms
MaxPollChanges == 2       \* changes of the polled value in the watchdog runs

TickSteps == {40, 80}            \* time between two API calls, ms
ToggleTickSteps == {10, 70, 80}  \* the same for the toggle ...
ToggleOffsets == {0, 10}         \* ... at these offsets within a frame interval
MaxTick == 80                    \* the longest time between two calls

(***************************************************************************)
(* uint32_t millisecond timestamps, kept at their width as a pair of       *)
(* 16-bit halves <<high, low>> (the value is high * 65536 + low).          *)
(***************************************************************************)
Half == 65536

\* Values of a uint8_t are 0 .. Uint8 - 1; arithmetic in uint8_t wraps.
Uint8 == 256

U32(n) == <<(n \div Half) % Half, n % Half>>

U32Add(t, d) ==
    LET s == t[2] + d
    IN  <<(t[1] + (s \div Half)) % Half, s % Half>>

U32Sub(x, y) ==
    LET l == x[2] - y[2]
        b == IF l < 0 THEN 1 ELSE 0
    IN  <<(x[1] - y[1] - b) % Half, l % Half>>

\* (int32_t)d < 0
I32Negative(d) == d[1] >= 32768

\* d > k for a small constant k
U32Gt(d, k) == d[1] > 0 \/ d[2] > k

U32IsZero(d) == d = <<0, 0>>

(***************************************************************************)
(* Low-level animator.  A sequence is represented by its frame count       *)
(* (0 stands for a null or empty sequence); frames are identified by       *)
(* their index.                                                            *)
(***************************************************************************)
ZeroAnimator == [count |-> 0, dir |-> 0, idx |-> 0, active |-> FALSE, next_ms |-> <<0, 0>>]

\* Variant that always begins at frame 0, whatever the direction.
animator_start_zero(an, count, forward, t) ==
    IF count = 0
    THEN [an EXCEPT !.active = FALSE]
    ELSE [count   |-> count,
          dir     |-> IF forward THEN 1 ELSE -1,
          idx     |-> 0,
          active  |-> TRUE,
          next_ms |-> U32Add(t, ANIM_FRAME_MS)]

animator_start(an, count, forward, t) ==
    IF count = 0
    THEN [an EXCEPT !.active = FALSE]
    ELSE [count   |-> count,
          dir     |-> IF forward THEN 1 ELSE -1,
          idx     |-> IF forward THEN 0 ELSE count - 1,
          active  |-> TRUE,
          next_ms |-> U32Add(t, ANIM_FRAME_MS)]

\* Restarting variant: the cancelled animation jumps to the far boundary.
animator_reverse_jump(an, t) ==
    IF ~an.active \/ an.count = 0
    THEN an
    ELSE [an EXCEPT !.dir = -an.dir,
                    !.idx = IF an.dir > 0 THEN an.count - 1 ELSE 0,
                    !.next_ms = U32Add(t, ANIM_FRAME_MS)]

\* Variant that flips the direction and keeps the deadline.
animator_reverse_keep_deadline(an, t) ==
    IF ~an.active \/ an.count = 0
    THEN an
    ELSE [an EXCEPT !.dir = -an.dir]

animator_reverse(an, t) ==
    IF ~an.active \/ an.count = 0
    THEN an
    ELSE [an EXCEPT !.dir = -an.dir, !.next_ms = U32Add(t, ANIM_FRAME_MS)]

\* Off-by-one variant: completion reported on arriving at the boundary frame.
animator_step_early(an, t) ==
    IF ~an.active \/ an.count = 0 THEN [a |-> an, r |-> ANIM_RUNNING]
    ELSE IF I32Negative(U32Sub(t, an.next_ms)) THEN [a |-> an, r |-> ANIM_RUNNING]
    ELSE LET a1 == [an EXCEPT !.next_ms = U32Add(an.next_ms, ANIM_FRAME_MS)]
             next_idx == an.idx + an.dir
         IN  IF next_idx <= 0
             THEN [a |-> [a1 EXCEPT !.idx = 0, !.active = FALSE], r |-> ANIM_DONE_AT_START]
             ELSE IF next_idx >= an.count - 1
             THEN [a |-> [a1 EXCEPT !.idx = an.count - 1, !.active = FALSE], r |-> ANIM_DONE_AT_END]
             ELSE [a |-> [a1 EXCEPT !.idx = next_idx], r |-> ANIM_RUNNING]

\* Variant whose due test compares the timestamps as unsigned numbers.
animator_step_unsigned(an, t) ==
    IF ~an.active \/ an.count = 0 THEN [a |-> an, r |-> ANIM_RUNNING]
    ELSE IF t[1] < an.next_ms[1] \/ (t[1] = an.next_ms[1] /\ t[2] < an.next_ms[2])
    THEN [a |-> an, r |-> ANIM_RUNNING]
    ELSE LET a1 == [an EXCEPT !.next_ms = U32Add(an.next_ms, ANIM_FRAME_MS)]
             next_idx == an.idx + an.dir
         IN  IF next_idx < 0
             THEN [a |-> [a1 EXCEPT !.idx = 0, !.active = FALSE], r |-> ANIM_DONE_AT_START]
             ELSE IF next_idx >= an.count
             THEN [a |-> [a1 EXCEPT !.idx = an.count - 1, !.active = FALSE], r |-> ANIM_DONE_AT_END]
             ELSE [a |-> [a1 EXCEPT !.idx = next_idx], r |-> ANIM_RUNNING]

\* Variant without the due test: every call on an active animator advances.
animator_step_undue(an, t) ==
    IF ~an.active \/ an.count = 0 THEN [a |-> an, r |-> ANIM_RUNNING]
    ELSE LET a1 == [an EXCEPT !.next_ms = U32Add(an.next_ms, ANIM_FRAME_MS)]
             next_idx == an.idx + an.dir
         IN  IF next_idx < 0
             THEN [a |-> [a1 EXCEPT !.idx = 0, !.active = FALSE], r |-> ANIM_DONE_AT_START]
             ELSE IF next_idx >= an.count
             THEN [a |-> [a1 EXCEPT !.idx = an.count - 1, !.active = FALSE], r |-> ANIM_DONE_AT_END]
             ELSE [a |-> [a1 EXCEPT !.idx = next_idx], r |-> ANIM_RUNNING]

\* Variant that computes the next index in uint8_t, without widening.
animator_step_narrow(an, t) ==
    IF ~an.active \/ an.count = 0 THEN [a |-> an, r |-> ANIM_RUNNING]
    ELSE IF I32Negative(U32Sub(t, an.next_ms)) THEN [a |-> an, r |-> ANIM_RUNNING]
    ELSE LET a1 == [an EXCEPT !.next_ms = U32Add(an.next_ms, ANIM_FRAME_MS)]
             next_idx == (an.idx + an.dir) % Uint8
         IN  IF next_idx >= an.count
             THEN [a |-> [a1 EXCEPT !.idx = an.count - 1, !.active = FALSE], r |-> ANIM_DONE_AT_END]
             ELSE [a |-> [a1 EXCEPT !.idx = next_idx], r |-> ANIM_RUNNING]

animator_step(an, t) ==
    IF ~an.active \/ an.count = 0 THEN [a |-> an, r |-> ANIM_RUNNING]
    ELSE IF I32Negative(U32Sub(t, an.next_ms)) THEN [a |-> an, r |-> ANIM_RUNNING]
    ELSE LET a1 == [an EXCEPT !.next_ms = U32Add(an.next_ms, ANIM_FRAME_MS)]
             next_idx == an.idx + an.dir
         IN  IF next_idx < 0
             THEN [a |-> [a1 EXCEPT !.idx = 0, !.active = FALSE], r |-> ANIM_DONE_AT_START]
             ELSE IF next_idx >= an.count
             THEN [a |-> [a1 EXCEPT !.idx = an.count - 1, !.active = FALSE], r |-> ANIM_DONE_AT_END]
             ELSE [a |-> [a1 EXCEPT !.idx = next_idx], r |-> ANIM_RUNNING]

\* The frame animator_draw_current puts on the display (the display keeps
\* its content when the animator is inactive).
NoFrame == [seq |-> -1, idx |-> -1]

animator_draw_current(an, seq, shown) ==
    IF ~an.active \/ an.count = 0 THEN shown ELSE [seq |-> seq, idx |-> an.idx]

\* animator_step_and_draw / animator_step_and_draw_blend: draw, then step.
animator_step_and_draw(an, seq, shown, t) ==
    LET s == animator_step(an, t)
    IN  [a |-> s.a, r |-> s.r, disp |-> animator_draw_current(an, seq, shown)]

(***************************************************************************)
(* Structs as constructed when a controller is not the one being driven    *)
(* (static storage, zero-initialised).                                     *)
(***************************************************************************)
ZeroToggle == [seq |-> 0, phase |-> TOG_IDLE_OFF, visible_on |-> FALSE,
               desired_on |-> FALSE, anim |-> ZeroAnimator]

ZeroTransition == [seq_map |-> <<>>, state_count |-> 0, phase |-> TR_IDLE,
                   src |-> 0, dst |-> 0, pending |-> 0, initialized |-> FALSE,
                   anim |-> ZeroAnimator]

ZeroWidget == [seq_map |-> <<>>, dirs |-> <<>>, state_count |-> 0, blit |-> "BLIT_OPAQUE",
               phase |-> TR_IDLE, src |-> 0, dst |-> 0,
               pending |-> 0, last_query_result |-> 0,
               last_state_change |-> <<0, 0>>, stuck_timeout |-> <<0, 0>>,
               initialized |-> FALSE, anim |-> ZeroAnimator]

ZeroOneshot == [seq |-> 0, steady_at_end |-> FALSE, phase |-> ONESHOT_IDLE,
                boot_done |-> FALSE, anim |-> ZeroAnimator]

ZeroOutback == [seq |-> 0, steady_at_end |-> FALSE, phase |-> OUTBACK_IDLE,
                boot_done |-> FALSE, anim |-> ZeroAnimator]

ZeroBootrev == [seq |-> 0, phase |-> BOOTREV_IDLE, boot_done |-> FALSE, anim |-> ZeroAnimator]

ZeroUnified == [behavior |-> ANIM_ONESHOT, seq |-> 0, steady |-> STEADY_FIRST,
                run_boot_anim |-> FALSE, phase |-> PHASE_IDLE, boot_done |-> FALSE,
                visible_on |-> FALSE, desired_on |-> FALSE, anim |-> ZeroAnimator]

\* The Quantum Painter controllers, the typing statistics and the RGB
\* activity module before their init functions run (zeroed statics).
ZeroQpAnimator == [count |-> 0, loop |-> FALSE, frame_duration_ms |-> 0,
                   dir |-> 0, idx |-> 0, active |-> FALSE, next_ms |-> <<0, 0>>]

ZeroQpToggle == [seq |-> 0, steady_at_end |-> FALSE, current_state |-> FALSE,
                 target_state |-> FALSE, in_transition |-> FALSE,
                 animator |-> ZeroQpAnimator]

ZeroQpWidget == [initialized |-> FALSE, state_count |-> 0, seq_map |-> <<>>, dirs |-> <<>>,
                 phase |-> "QP_WIDGET_IDLE", current_state |-> 0, target_state |-> 0,
                 last_query_time |-> <<0, 0>>, last_state_change |-> <<0, 0>>,
                 stuck_timeout |-> <<0, 0>>, last_query_result |-> 0,
                 animator |-> ZeroQpAnimator]

\* ts_blob_t with its counters reduced to total_presses (low byte) and
\* session_start_time; magic and crc32 are 32-bit words as sets of bit
\* positions.
ZeroBlob == [magic |-> {}, version |-> 0, total_presses |-> 0,
             session_start_time |-> 0, crc32 |-> {}]

\* The user datablock in EEPROM and the statics of typing_stats.c.
ZeroTypingStats == [stored |-> ZeroBlob, g_blob |-> ZeroBlob, g_loaded |-> FALSE,
                    g_dirty |-> FALSE, g_event_ctr |-> 0]

\* The statics of rgb_activity.c with the matrix's value and saturation.
\* Times are kept as ages: fade_out_age and fade_in_age are timer_read32()
\* minus last_fade_out_time and last_fade_in_time, inactivity is
\* last_input_activity_elapsed(); each stops counting at the largest value
\* the code compares it with.
ZeroRgbActivity == [current_state |-> "RGB_ACTIVITY_NORMAL", original_brightness |-> 0,
                    original_saturation |-> 0, fade_out_age |-> 0, fade_in_age |-> 0,
                    state_saved |-> FALSE, val |-> 0, sat |-> 0, inactivity |-> 0]

\* The host's millisecond counter moves on between two API calls.
Advance(steps, offsets, limit) ==
    \E d \in steps :
        /\ elapsed + d <= limit
        /\ (elapsed + d) % ANIM_FRAME_MS \in offsets
        /\ now' = U32Add(now, d)
        /\ elapsed' = elapsed + d

(***************************************************************************)
(* Unit "anim": a bare animator_t driven through start / reverse / step.   *)
(* History h: n, fwd, startAt = arguments of the last start; due = number  *)
(* of steps that advanced since then; clean = no effective reverse since   *)
(* then; res = result of the last step that advanced; revK, revDir = index *)
(* and direction at the last effective reverse; sinceRev = steps that      *)
(* advanced since that reverse; op = the last call, adv = whether the last *)
(* step advanced.                                                          *)
(***************************************************************************)
InitAnim ==
    /\ unit = "anim"
    /\ now = U32(0)
    /\ elapsed = 0
    /\ qt = ZeroQpToggle /\ qw = ZeroQpWidget /\ ts = ZeroTypingStats /\ rgb = ZeroRgbActivity
    /\ os = ZeroOneshot /\ ob = ZeroOutback /\ br = ZeroBootrev /\ un = ZeroUnified
    /\ a = ZeroAnimator
    /\ tog = ZeroToggle
    /\ lt = ZeroTransition
    /\ w = ZeroWidget
    /\ disp = NoFrame
    /\ h = [op |-> "init", adv |-> FALSE, res |-> "none", n |-> 0, fwd |-> TRUE,
            startAt |-> U32(0), due |-> 0, clean |-> FALSE,
            revK |-> -1, revDir |-> 0, sinceRev |-> 0]

AnimStart ==
    /\ unit = "anim"
    /\ \E n \in 0..MaxCount, f \in BOOLEAN :
        /\ a' = animator_start(a, n, f, now)
        /\ h' = [op |-> "start", adv |-> FALSE, res |-> "none", n |-> n, fwd |-> f,
                 startAt |-> now, due |-> 0, clean |-> (n > 0),
                 revK |-> -1, revDir |-> 0, sinceRev |-> 0]
    /\ UNCHANGED <<qt, qw, ts, rgb, os, ob, br, un, unit, now, elapsed, tog, lt, w, disp>>

AnimReverse ==
    /\ unit = "anim"
    /\ a' = animator_reverse(a, now)
    /\ h' = IF a.active /\ a.count > 0
            THEN [h EXCEPT !.op = "reverse", !.clean = FALSE, !.revK = a.idx,
                           !.revDir = a.dir, !.sinceRev = 0]
            ELSE [h EXCEPT !.op = "reverse"]
    /\ UNCHANGED <<qt, qw, ts, rgb, os, ob, br, un, unit, now, elapsed, tog, lt, w, disp>>

AnimStep ==
    /\ unit = "anim"
    /\ LET s == animator_step(a, now)
           advanced == s.a # a
       IN  /\ a' = s.a
           /\ h' = [h EXCEPT !.op = "step",
                             !.adv = advanced,
                             !.res = IF advanced THEN s.r ELSE @,
                             !.due = IF advanced THEN @ + 1 ELSE @,
                             !.sinceRev = IF advanced /\ h.revK >= 0 THEN @ + 1 ELSE @]
    /\ UNCHANGED <<qt, qw, ts, rgb, os, ob, br, un, unit, now, elapsed, tog, lt, w, disp>>

AnimAdvance ==
    /\ unit = "anim"
    /\ Advance(TickSteps, {0, 40}, MaxElapsedAnim)
    /\ h' = [h EXCEPT !.op = "advance"]
    /\ UNCHANGED <<qt, qw, ts, rgb, os, ob, br, un, unit, a, tog, lt, w, disp>>

NextAnim == AnimStart \/ AnimReverse \/ AnimStep \/ AnimAdvance

SpecAnim == InitAnim /\ [][NextAnim]_vars

\* C6 (as amended): a sequence of N frames started forward reaches
\* ANIM_DONE_AT_END with index N-1 on the N-th step made after its deadline;
\* the first N-1 such steps report ANIM_RUNNING with index 1 .. N-1 (the
\* deadlines are start + 80, start + 160, ...; a step made at or after the
\* deadline of an active animator always advances).  Started backward, the
\* N-th step reaches ANIM_DONE_AT_START with index 0.
C6_BoundaryOnNthStep ==
    (unit = "anim" /\ h.clean) =>
        LET N     == h.n
            first == IF h.fwd THEN 0 ELSE N - 1
            last  == IF h.fwd THEN N - 1 ELSE 0
            sign  == IF h.fwd THEN 1 ELSE -1
            done  == IF h.fwd THEN ANIM_DONE_AT_END ELSE ANIM_DONE_AT_START
        IN  /\ h.due <= N
            /\ (h.due < N) =>
                   /\ a.active
                   /\ a.idx = first + sign * h.due
                   /\ a.next_ms = U32Add(h.startAt, ANIM_FRAME_MS * (h.due + 1))
                   /\ (h.due > 0 => h.res = ANIM_RUNNING)
                   /\ (h.op = "step" /\ ~h.adv) => I32Negative(U32Sub(now, a.next_ms))
            /\ (h.due = N) => (~a.active /\ a.idx = last /\ h.res = done)

\* C6 witness: 4 frames started forward at t=0, the fourth due step, made at
\* t=320, has reported ANIM_DONE_AT_END with index 3.
C6_Witness ==
    /\ unit = "anim" /\ h.clean /\ h.n = 4 /\ h.fwd /\ h.startAt = U32(0)
    /\ now = U32(320) /\ h.op = "step" /\ h.due = 4
    /\ h.res = ANIM_DONE_AT_END /\ a.idx = 3 /\ ~a.active

\* C6 as originally stated: after exactly N-1 due steps the animator has
\* reached its boundary result (ANIM_DONE_AT_END with index N-1 when started
\* forward, ANIM_DONE_AT_START with index 0 when started backward).
C6_Original ==
    (unit = "anim" /\ h.clean /\ h.n >= 2 /\ h.due = h.n - 1) =>
        /\ h.res = (IF h.fwd THEN ANIM_DONE_AT_END ELSE ANIM_DONE_AT_START)
        /\ a.idx = (IF h.fwd THEN h.n - 1 ELSE 0)

\* C7 (as amended): animator_reverse on an active animator leaves the frame
\* index unchanged, negates the direction and re-arms the deadline to the
\* time of the call + ANIM_FRAME_MS; the next due step moves the
\* index from k to k-1 (had been playing forward, k >= 1) or k+1 (had been
\* playing backward, k <= N-2); a reversal at the boundary frame it started
\* from (k = 0 forward, k = N-1 backward) makes that step finish at the
\* boundary with the index unchanged.
C7_ReversePreservesFrame ==
    (unit = "anim" /\ h.revK >= 0) =>
        /\ (h.sinceRev = 0) =>
               /\ a.active /\ a.idx = h.revK /\ a.dir = -h.revDir
               /\ (h.op = "reverse") => a.next_ms = U32Add(now, ANIM_FRAME_MS)
        /\ (h.sinceRev = 1 /\ h.revDir = 1) =>
               IF h.revK >= 1
               THEN a.idx = h.revK - 1 /\ h.res = ANIM_RUNNING /\ a.active
               ELSE a.idx = 0 /\ h.res = ANIM_DONE_AT_START /\ ~a.active
        /\ (h.sinceRev = 1 /\ h.revDir = -1) =>
               IF h.revK <= a.count - 2
               THEN a.idx = h.revK + 1 /\ h.res = ANIM_RUNNING /\ a.active
               ELSE a.idx = a.count - 1 /\ h.res = ANIM_DONE_AT_END /\ ~a.active

\* C7 witness: reversed at index 2 while playing forward, one due step later
\* the index is 1.
C7_Witness ==
    /\ unit = "anim" /\ h.revK = 2 /\ h.revDir = 1 /\ h.sinceRev = 1
    /\ h.op = "step" /\ a.idx = 1 /\ a.dir = -1 /\ a.active

\* C7 as originally stated: for every index k at which the reversal happens,
\* the next due step moves the index to k-1 (forward) or k+1 (backward).
C7_Original ==
    (unit = "anim" /\ h.revK >= 0 /\ h.sinceRev = 1) =>
        a.idx = h.revK - h.revDir

(***************************************************************************)
(* Binary toggle controller (toggle_anim_t).  seq is the frame count of    *)
(* the controller's sequence.  The blend flag of toggle_anim_render_blend  *)
(* only decides whether the rectangle is cleared before drawing; it has no *)
(* influence on the controller state or on which frame is drawn.           *)
(***************************************************************************)
toggle_draw_steady(tg, on) ==
    [seq |-> 0, idx |-> IF on THEN tg.seq - 1 ELSE 0]

toggle_anim_init(seq, initial_on) ==
    [seq |-> seq,
     phase |-> IF initial_on THEN TOG_IDLE_ON ELSE TOG_IDLE_OFF,
     visible_on |-> initial_on,
     desired_on |-> initial_on,
     anim |-> ZeroAnimator]

\* Variant whose cancel paths reverse the animator but keep the phase.
toggle_anim_set_keep_phase(tg, want_on, t) ==
    LET tg1 == [tg EXCEPT !.desired_on = want_on]
    IN  CASE tg.phase = TOG_IDLE_OFF ->
                IF want_on
                THEN [tg1 EXCEPT !.anim = animator_start(tg.anim, tg.seq, TRUE, t),
                                 !.phase = TOG_ENTERING]
                ELSE tg1
          [] tg.phase = TOG_IDLE_ON ->
                IF ~want_on
                THEN [tg1 EXCEPT !.anim = animator_start(tg.anim, tg.seq, FALSE, t),
                                 !.phase = TOG_EXITING]
                ELSE tg1
          [] tg.phase = TOG_ENTERING ->
                IF ~want_on
                THEN [tg1 EXCEPT !.anim = animator_reverse(tg.anim, t)]
                ELSE tg1
          [] tg.phase = TOG_EXITING ->
                IF want_on
                THEN [tg1 EXCEPT !.anim = animator_reverse(tg.anim, t)]
                ELSE tg1

\* Variant that reverses a running animation on every call, whatever is wanted.
toggle_anim_set_always_reverse(tg, want_on, t) ==
    LET tg1 == [tg EXCEPT !.desired_on = want_on]
    IN  CASE tg.phase = TOG_IDLE_OFF ->
                [tg1 EXCEPT !.anim = animator_start(tg.anim, tg.seq, TRUE, t),
                            !.phase = TOG_ENTERING]
          [] tg.phase = TOG_IDLE_ON ->
                [tg1 EXCEPT !.anim = animator_start(tg.anim, tg.seq, FALSE, t),
                            !.phase = TOG_EXITING]
          [] tg.phase = TOG_ENTERING ->
                [tg1 EXCEPT !.anim = animator_reverse(tg.anim, t),
                            !.phase = TOG_EXITING]
          [] tg.phase = TOG_EXITING ->
                [tg1 EXCEPT !.anim = animator_reverse(tg.anim, t),
                            !.phase = TOG_ENTERING]

toggle_anim_set(tg, want_on, t) ==
    LET tg1 == [tg EXCEPT !.desired_on = want_on]
    IN  CASE tg.phase = TOG_IDLE_OFF ->
                IF want_on
                THEN [tg1 EXCEPT !.anim = animator_start(tg.anim, tg.seq, TRUE, t),
                                 !.phase = TOG_ENTERING]
                ELSE tg1
          [] tg.phase = TOG_IDLE_ON ->
                IF ~want_on
                THEN [tg1 EXCEPT !.anim = animator_start(tg.anim, tg.seq, FALSE, t),
                                 !.phase = TOG_EXITING]
                ELSE tg1
          [] tg.phase = TOG_ENTERING ->
                IF ~want_on
                THEN [tg1 EXCEPT !.anim = animator_reverse(tg.anim, t),
                                 !.phase = TOG_EXITING]
                ELSE tg1
          [] tg.phase = TOG_EXITING ->
                IF want_on
                THEN [tg1 EXCEPT !.anim = animator_reverse(tg.anim, t),
                                 !.phase = TOG_ENTERING]
                ELSE tg1

\* toggle_anim_render / toggle_anim_render_blend: the new struct, the frame
\* on the display and the animator's result (r, "none" when idle).
toggle_anim_render_blend(tg, shown, t) ==
    CASE tg.phase = TOG_IDLE_OFF ->
            [tog |-> tg, disp |-> toggle_draw_steady(tg, FALSE), r |-> "none"]
      [] tg.phase = TOG_IDLE_ON ->
            [tog |-> tg, disp |-> toggle_draw_steady(tg, TRUE), r |-> "none"]
      [] tg.phase = TOG_ENTERING ->
            LET s == animator_step_and_draw(tg.anim, 0, shown, t)
                tg1 == [tg EXCEPT !.anim = s.a]
            IN  [tog |-> IF s.r = ANIM_DONE_AT_END
                         THEN [tg1 EXCEPT !.phase = TOG_IDLE_ON, !.visible_on = TRUE]
                         ELSE tg1,
                 disp |-> s.disp, r |-> s.r]
      [] tg.phase = TOG_EXITING ->
            LET s == animator_step_and_draw(tg.anim, 0, shown, t)
                tg1 == [tg EXCEPT !.anim = s.a]
            IN  [tog |-> IF s.r = ANIM_DONE_AT_START
                         THEN [tg1 EXCEPT !.phase = TOG_IDLE_OFF, !.visible_on = FALSE]
                         ELSE tg1,
                 disp |-> s.disp, r |-> s.r]

(***************************************************************************)
(* Unit "toggle": a toggle_anim_t driven through set / render.             *)
(* History h: op, want = the last call and its argument; pre = the phase   *)
(* before the last set; scen = progress of "set(true) from idle-off, then  *)
(* set(false) before completion" ("enter" after the first call, "cancel"   *)
(* after the second, "none" otherwise), cancelIdx = frame index at the     *)
(* cancelling call, dueC = renders that advanced the animator since then;  *)
(* orig, amd = how many calls of the two timed scenarios below have been   *)
(* made so far, exactly on schedule (-1 once the run departs from them).   *)
(***************************************************************************)
ScriptOriginal ==
    << <<"set", TRUE, 0>>, <<"render", FALSE, 80>>, <<"render", FALSE, 160>>,
       <<"render", FALSE, 240>>, <<"set", FALSE, 250>>, <<"render", FALSE, 330>>,
       <<"render", FALSE, 410>>, <<"render", FALSE, 490>> >>

ScriptAmended ==
    << <<"set", TRUE, 0>>, <<"render", FALSE, 80>>, <<"render", FALSE, 160>>,
       <<"render", FALSE, 240>>, <<"render", FALSE, 320>>, <<"set", FALSE, 330>>,
       <<"render", FALSE, 410>>, <<"render", FALSE, 490>>, <<"render", FALSE, 570>>,
       <<"render", FALSE, 650>> >>

Follow(script, k, op, arg, t) ==
    IF k >= 0 /\ k < Len(script) /\ script[k + 1] = <<op, arg, t>> THEN k + 1 ELSE -1

InitToggle ==
    /\ unit = "toggle"
    /\ now = U32(0)
    /\ elapsed = 0
    /\ qt = ZeroQpToggle /\ qw = ZeroQpWidget /\ ts = ZeroTypingStats /\ rgb = ZeroRgbActivity
    /\ os = ZeroOneshot /\ ob = ZeroOutback /\ br = ZeroBootrev /\ un = ZeroUnified
    /\ a = ZeroAnimator
    /\ lt = ZeroTransition
    /\ w = ZeroWidget
    /\ \E seq \in 1..MaxCount, initial_on \in BOOLEAN :
        /\ tog = toggle_anim_init(seq, initial_on)
        /\ disp = toggle_draw_steady(tog, initial_on)
        /\ h = [op |-> "init", want |-> initial_on, pre |-> tog.phase,
                scen |-> "none", cancelIdx |-> 0, dueC |-> 0,
                orig |-> IF seq = 4 /\ ~initial_on THEN 0 ELSE -1,
                amd  |-> IF seq = 4 /\ ~initial_on THEN 0 ELSE -1]

ToggleSet ==
    /\ unit = "toggle"
    /\ \E want_on \in BOOLEAN :
        /\ tog' = toggle_anim_set(tog, want_on, now)
        /\ h' = [h EXCEPT
                   !.op = "set", !.want = want_on, !.pre = tog.phase,
                   !.scen = IF want_on
                            THEN (IF tog.phase = TOG_IDLE_OFF THEN "enter"
                                  ELSE IF h.scen = "enter" THEN "enter" ELSE "none")
                            ELSE (IF h.scen = "enter" /\ tog.phase = TOG_ENTERING THEN "cancel"
                                  ELSE IF h.scen = "cancel" THEN "cancel" ELSE "none"),
                   !.cancelIdx = IF ~want_on /\ h.scen = "enter" THEN tog.anim.idx ELSE @,
                   !.dueC = IF ~want_on /\ h.scen = "enter" THEN 0 ELSE @,
                   !.orig = Follow(ScriptOriginal, h.orig, "set", want_on, elapsed),
                   !.amd  = Follow(ScriptAmended, h.amd, "set", want_on, elapsed)]
    /\ UNCHANGED <<qt, qw, ts, rgb, os, ob, br, un, unit, now, elapsed, a, lt, w, disp>>

ToggleRender ==
    /\ unit = "toggle"
    /\ LET s == toggle_anim_render_blend(tog, disp, now)
       IN  /\ tog' = s.tog
           /\ disp' = s.disp
           /\ h' = [h EXCEPT
                      !.op = "render",
                      !.scen = IF h.scen = "enter" /\ s.tog.phase # TOG_ENTERING
                               THEN "none" ELSE @,
                      !.dueC = IF h.scen = "cancel" /\ s.tog.anim # tog.anim
                               THEN @ + 1 ELSE @,
                      !.orig = Follow(ScriptOriginal, h.orig, "render", FALSE, elapsed),
                      !.amd  = Follow(ScriptAmended, h.amd, "render", FALSE, elapsed)]
    /\ UNCHANGED <<qt, qw, ts, rgb, os, ob, br, un, unit, now, elapsed, a, lt, w>>

ToggleAdvance ==
    /\ unit = "toggle"
    /\ Advance(ToggleTickSteps, ToggleOffsets, MaxElapsedToggle)
    /\ h' = [h EXCEPT !.op = "advance"]
    /\ UNCHANGED <<qt, qw, ts, rgb, os, ob, br, un, unit, a, tog, lt, w, disp>>

NextToggle == ToggleSet \/ ToggleRender \/ ToggleAdvance

SpecToggle == InitToggle /\ [][NextToggle]_vars

\* C8: from idle-off, toggle_anim_set(true) followed before completion by
\* toggle_anim_set(false): the enter is undone frame by frame from the index
\* it was cancelled at (one frame per due render, never stuck, never an
\* animating phase with an inactive animator), and the controller ends in
\* TOG_IDLE_OFF showing frame 0 with the animator inactive and index 0.
C8_ToggleCancelEndsIdleOff ==
    (unit = "toggle" /\ h.scen = "cancel") =>
        \/ /\ tog.phase = TOG_EXITING
           /\ tog.anim.active
           /\ tog.anim.dir = -1
           /\ h.dueC <= h.cancelIdx
           /\ tog.anim.idx = h.cancelIdx - h.dueC
        \/ /\ tog.phase = TOG_IDLE_OFF
           /\ ~tog.anim.active
           /\ tog.anim.idx = 0
           /\ ~tog.visible_on
           /\ h.dueC = h.cancelIdx + 1
           /\ (h.op = "render" => disp = [seq |-> 0, idx |-> 0])

\* C8 witness: cancelled at frame 2, three due renders later the controller
\* is idle-off showing frame 0.
C8_Witness ==
    /\ unit = "toggle" /\ h.scen = "cancel" /\ h.cancelIdx = 2 /\ h.dueC = 3
    /\ h.op = "render" /\ tog.phase = TOG_IDLE_OFF /\ ~tog.anim.active
    /\ disp = [seq |-> 0, idx |-> 0]

\* C9: toggle_anim_set(true) while idle-on starts no animation (phase stays
\* TOG_IDLE_ON, animator inactive), and while entering it changes neither
\* the phase nor the animator (index, direction, deadline); symmetrically
\* for toggle_anim_set(false) while idle-off or exiting.
C9_ToggleSetIdempotent ==
    [][ (unit = "toggle" /\ h'.op = "set") =>
          /\ (h'.want /\ tog.phase = TOG_IDLE_ON) =>
                 (tog'.phase = TOG_IDLE_ON /\ ~tog'.anim.active)
          /\ (h'.want /\ tog.phase = TOG_ENTERING) =>
                 (tog'.phase = TOG_ENTERING /\ tog'.anim = tog.anim)
          /\ (~h'.want /\ tog.phase = TOG_IDLE_OFF) =>
                 (tog'.phase = TOG_IDLE_OFF /\ ~tog'.anim.active)
          /\ (~h'.want /\ tog.phase = TOG_EXITING) =>
                 (tog'.phase = TOG_EXITING /\ tog'.anim = tog.anim)
      ]_vars

\* C9 witness: toggle_anim_set(true) has just been called while entering,
\* at frame 2.
C9_Witness ==
    /\ unit = "toggle" /\ h.op = "set" /\ h.want /\ h.pre = TOG_ENTERING
    /\ tog.phase = TOG_ENTERING /\ tog.anim.idx = 2 /\ tog.anim.active

\* C10 (as amended): 4 frames, 80 ms interval, rendered once per interval.
\* toggle_anim_set(true) at t=0 starts forward from index 0; the render at
\* t=240 leaves index 3 with the phase still TOG_ENTERING, and the render at
\* t=320 (four intervals) reaches idle-on; toggle_anim_set(false) at t=330
\* starts backward from index 3; three more steps (t=410, 490, 570) leave
\* index 0 with the phase still TOG_EXITING and the fourth (t=650) reaches
\* idle-off at index 0.
C10_ToggleScenario ==
    (unit = "toggle") =>
        /\ (h.amd = 1)  => (tog.phase = TOG_ENTERING /\ tog.anim.active
                            /\ tog.anim.idx = 0 /\ tog.anim.dir = 1)
        /\ (h.amd = 4)  => (tog.phase = TOG_ENTERING /\ tog.anim.active /\ tog.anim.idx = 3)
        /\ (h.amd = 5)  => (tog.phase = TOG_IDLE_ON /\ ~tog.anim.active
                            /\ tog.anim.idx = 3 /\ tog.visible_on)
        /\ (h.amd = 6)  => (tog.phase = TOG_EXITING /\ tog.anim.active
                            /\ tog.anim.idx = 3 /\ tog.anim.dir = -1)
        /\ (h.amd = 9)  => (tog.phase = TOG_EXITING /\ tog.anim.active /\ tog.anim.idx = 0)
        /\ (h.amd = 10) => (tog.phase = TOG_IDLE_OFF /\ ~tog.anim.active
                            /\ tog.anim.idx = 0 /\ ~tog.visible_on)

\* C10 witness: the amended scenario has been played to its end at t=650.
C10_Witness ==
    /\ unit = "toggle" /\ h.amd = 10 /\ elapsed = 650
    /\ tog.phase = TOG_IDLE_OFF /\ tog.anim.idx = 0

\* C10 as originally stated: the controller has reached idle-on at t=240;
\* toggle_anim_set(false) at t=250 starts backward from index 3, and after
\* 3 more steps the controller is idle-off at index 0.
C10_Original ==
    (unit = "toggle") =>
        /\ (h.orig = 1) => (tog.phase = TOG_ENTERING /\ tog.anim.dir = 1)
        /\ (h.orig = 4) => (tog.phase = TOG_IDLE_ON)
        /\ (h.orig = 5) => (tog.phase = TOG_EXITING /\ tog.anim.idx = 3 /\ tog.anim.dir = -1)
        /\ (h.orig = 8) => (tog.phase = TOG_IDLE_OFF /\ tog.anim.idx = 0)

(***************************************************************************)
(* Exclusive-state transition controller (layer_transition_t).  seq_map    *)
(* gives the frame count of each state's sequence.                         *)
(***************************************************************************)
States == 0 .. NumStates - 1

\* Sequence tables: state s has 1 + ((c + s) mod MaxCount) frames.
SeqMaps == { [s \in States |-> 1 + ((c + s) % MaxCount)] : c \in 0 .. MaxCount - 1 }

\* What a caller may pass as desired state: every valid state, the first
\* invalid index and 0xFF.
Requests == States \cup {NumStates, NO_PENDING}

layer_tr_draw_steady(t, state, shown) ==
    IF t.seq_map[state] = 0
    THEN shown
    ELSE [seq |-> state, idx |-> t.seq_map[state] - 1]

layer_start_exit(t, tm) ==
    [t EXCEPT !.anim = animator_start(t.anim, t.seq_map[t.src], FALSE, tm),
              !.phase = TR_EXIT]

layer_start_enter(t, tm) ==
    [t EXCEPT !.anim = animator_start(t.anim, t.seq_map[t.src], TRUE, tm),
              !.phase = TR_ENTER]

layer_tr_init(seq_map, state_count, initial_state) ==
    [seq_map |-> seq_map, state_count |-> state_count, phase |-> TR_IDLE,
     src |-> initial_state, dst |-> initial_state, pending |-> NO_PENDING,
     initialized |-> TRUE, anim |-> ZeroAnimator]

\* Variant that keeps the first target when another one arrives mid-exit.
layer_tr_request_first_wins(t, desired, tm) ==
    IF ~t.initialized \/ desired >= t.state_count THEN t
    ELSE IF t.phase = TR_IDLE /\ desired = t.src THEN t
    ELSE IF t.phase = TR_IDLE
    THEN layer_start_exit([t EXCEPT !.dst = desired], tm)
    ELSE IF t.phase = TR_EXIT
    THEN (IF desired = t.src
          THEN [t EXCEPT !.anim = animator_reverse(t.anim, tm), !.dst = t.src]
          ELSE t)
    ELSE (IF desired = t.src
          THEN t
          ELSE [t EXCEPT !.anim = animator_reverse(t.anim, tm), !.pending = desired])

layer_tr_request(t, desired, tm) ==
    IF ~t.initialized \/ desired >= t.state_count THEN t
    ELSE IF t.phase = TR_IDLE /\ desired = t.src THEN t
    ELSE IF t.phase = TR_IDLE
    THEN (IF desired # t.src
          THEN layer_start_exit([t EXCEPT !.dst = desired], tm)
          ELSE t)
    ELSE IF t.phase = TR_EXIT
    THEN (IF desired = t.src
          THEN [t EXCEPT !.anim = animator_reverse(t.anim, tm), !.dst = t.src]
          ELSE IF desired # t.dst
          THEN [t EXCEPT !.dst = desired]
          ELSE t)
    ELSE (IF desired = t.src
          THEN t
          ELSE [t EXCEPT !.anim = animator_reverse(t.anim, tm), !.pending = desired])

\* After a reversed leg came back: start the queued exit, or show the steady frame.
layer_kick_pending(t, shown, tm) ==
    LET t1 == [t EXCEPT !.phase = TR_IDLE]
    IN  IF t1.pending # NO_PENDING /\ t1.pending # t1.src
        THEN [lt |-> layer_start_exit([t1 EXCEPT !.dst = t1.pending, !.pending = NO_PENDING], tm),
              disp |-> shown]
        ELSE [lt |-> t1, disp |-> layer_tr_draw_steady(t1, t1.src, shown)]

\* layer_tr_render: the new struct, the frame on the display and the
\* animator's result (r, "none" when idle).
layer_tr_render(t, shown, tm) ==
    IF t.phase = TR_IDLE
    THEN [lt |-> t, disp |-> layer_tr_draw_steady(t, t.src, shown), r |-> "none"]
    ELSE LET s  == animator_step_and_draw(t.anim, t.src, shown, tm)
             t1 == [t EXCEPT !.anim = s.a]
         IN  IF s.r = ANIM_RUNNING
             THEN [lt |-> t1, disp |-> s.disp, r |-> s.r]
             ELSE IF t.phase = TR_EXIT
             THEN (IF s.r = ANIM_DONE_AT_START
                   THEN [lt |-> layer_start_enter([t1 EXCEPT !.src = t1.dst], tm),
                         disp |-> s.disp, r |-> s.r]
                   ELSE LET k == layer_kick_pending(t1, s.disp, tm)
                        IN  [lt |-> k.lt, disp |-> k.disp, r |-> s.r])
             ELSE (IF s.r = ANIM_DONE_AT_END
                   THEN [lt |-> [t1 EXCEPT !.phase = TR_IDLE],
                         disp |-> layer_tr_draw_steady(t1, t1.src, s.disp), r |-> s.r]
                   ELSE LET k == layer_kick_pending(t1, s.disp, tm)
                        IN  [lt |-> k.lt, disp |-> k.disp, r |-> s.r])

(***************************************************************************)
(* History shared by the layer controller and the widget.                  *)
(*   lastReq  the last valid desired state asked for                       *)
(*   stage, qA, qB, qC, due, entered, fin: progress of "idle at qA, qB     *)
(*     requested, then qC (neither qA nor qB) requested while the exit leg *)
(*     of qA is still running, nothing else requested afterwards":         *)
(*     stage is "exitB" after the first request, "exitC" after the second, *)
(*     "none" otherwise; due counts the frames the exit leg advanced;      *)
(*     entered says an enter leg was started, fin that the controller has  *)
(*     come back to idle.                                                  *)
(***************************************************************************)
StageOnRequest(hh, phase, src, desired, valid) ==
    IF ~valid \/ hh.fin THEN "none"
    ELSE IF hh.stage = "exitB"
    THEN (IF desired = hh.qB THEN "exitB"
          ELSE IF phase = TR_EXIT /\ desired # hh.qA THEN "exitC"
          ELSE "none")
    ELSE IF hh.stage = "exitC"
    THEN (IF desired = hh.qC THEN "exitC" ELSE "none")
    ELSE "none"

\* The scenario fields are kept only while the scenario is being followed.
Normal(hh) ==
    IF hh.stage = "none"
    THEN [hh EXCEPT !.qA = 0, !.qB = 0, !.qC = 0, !.due = 0,
                    !.entered = FALSE, !.fin = FALSE]
    ELSE hh

\* History after a request (or poll) of `desired` met the controller in
\* (phase, src) and left it in phase2.
HistoryOnRequest(hh, phase, src, desired, valid, phase2) ==
    LET fresh == valid /\ phase = TR_IDLE /\ desired # src /\ phase2 = TR_EXIT
        st    == IF fresh THEN "exitB" ELSE StageOnRequest(hh, phase, src, desired, valid)
    IN  Normal([hh EXCEPT
           !.lastReq = IF valid THEN desired ELSE @,
           !.stage = st,
           !.qA = IF fresh THEN src ELSE @,
           !.qB = IF fresh THEN desired ELSE @,
           !.qC = IF fresh THEN desired
                  ELSE IF st = "exitC" /\ hh.stage = "exitB" THEN desired ELSE @,
           !.due = IF fresh THEN 0 ELSE @,
           !.entered = IF fresh THEN FALSE ELSE @,
           !.fin = IF fresh THEN FALSE ELSE @])

\* A render call advanced the animator when the frame index moved or a
\* boundary was reported.
Advanced(anim, anim2, r) == r \in {ANIM_DONE_AT_START, ANIM_DONE_AT_END} \/ anim2.idx # anim.idx

\* History after the controller was rendered from phase to phase2.  A first
\* request that is never followed by a second one is not followed beyond its
\* exit leg.
HistoryOnRender(hh, phase, advanced, phase2) ==
    IF hh.stage = "none" \/ hh.fin THEN hh
    ELSE Normal([hh EXCEPT
            !.stage = IF hh.stage = "exitB" /\ phase2 # TR_EXIT THEN "none" ELSE @,
            !.due = IF phase = TR_EXIT /\ advanced THEN @ + 1 ELSE @,
            !.entered = @ \/ phase2 = TR_ENTER,
            !.fin = (phase2 = TR_IDLE)])

InitHistory(initial_state) ==
    [op |-> "init", lastReq |-> initial_state, stage |-> "none",
     qA |-> 0, qB |-> 0, qC |-> 0, due |-> 0, entered |-> FALSE, fin |-> FALSE]

(***************************************************************************)
(* Unit "layer": a layer_transition_t driven through request / render.     *)
(***************************************************************************)
InitLayer ==
    /\ unit = "layer"
    /\ now = U32(0)
    /\ elapsed = 0
    /\ qt = ZeroQpToggle /\ qw = ZeroQpWidget /\ ts = ZeroTypingStats /\ rgb = ZeroRgbActivity
    /\ os = ZeroOneshot /\ ob = ZeroOutback /\ br = ZeroBootrev /\ un = ZeroUnified
    /\ a = ZeroAnimator
    /\ tog = ZeroToggle
    /\ w = ZeroWidget
    /\ \E seq_map \in SeqMaps, initial_state \in States :
        /\ lt = layer_tr_init(seq_map, NumStates, initial_state)
        /\ disp = layer_tr_draw_steady(lt, initial_state, NoFrame)
        /\ h = InitHistory(initial_state)

LayerRequest ==
    /\ unit = "layer"
    /\ \E desired \in Requests :
        /\ lt' = layer_tr_request(lt, desired, now)
        /\ h' = [HistoryOnRequest(h, lt.phase, lt.src, desired,
                                  desired < lt.state_count, lt'.phase)
                   EXCEPT !.op = "request"]
    /\ UNCHANGED <<qt, qw, ts, rgb, os, ob, br, un, unit, now, elapsed, a, tog, w, disp>>

LayerRender ==
    /\ unit = "layer"
    /\ LET s == layer_tr_render(lt, disp, now)
       IN  /\ lt' = s.lt
           /\ disp' = s.disp
           /\ h' = [HistoryOnRender(h, lt.phase, Advanced(lt.anim, s.lt.anim, s.r), s.lt.phase)
                      EXCEPT !.op = "render"]
    /\ UNCHANGED <<qt, qw, ts, rgb, os, ob, br, un, unit, now, elapsed, a, tog, w>>

LayerAdvance ==
    /\ unit = "layer"
    /\ Advance(TickSteps, {0, 40}, MaxElapsedLayer)
    /\ UNCHANGED <<qt, qw, ts, rgb, os, ob, br, un, unit, a, tog, lt, w, disp, h>>

NextLayer == LayerRequest \/ LayerRender \/ LayerAdvance

SpecLayer == InitLayer /\ [][NextLayer]_vars

\* C4 as stated, in the form a finite run refutes: layer_tr_render leaves an
\* idle controller idle, so whenever the controller is in TR_IDLE its src is
\* the state of the last valid request.
C4_MostRecentWins ==
    (unit = "layer" /\ lt.phase = TR_IDLE) => lt.src = h.lastReq

(***************************************************************************)
(* Declarative widget (widget_t with its widget_config_t).  seq_map gives  *)
(* the frame count and dirs the enter_dir of each state; blit is the       *)
(* blending mode.  The polled value q is the result of cfg->query.         *)
(***************************************************************************)
DirMaps == { [s \in States |-> ENTER_FWD],
             [s \in States |-> IF s = 0 THEN ENTER_REV ELSE ENTER_FWD] }

WidgetBlits == {"BLIT_OPAQUE"}

draw_state_steady(wd, state) ==
    [seq |-> state,
     idx |-> IF wd.dirs[state] > 0 THEN wd.seq_map[state] - 1 ELSE 0]

map_enter_of(wd, state) == wd.dirs[state] > 0

map_exit_of(wd, state) == wd.dirs[state] <= 0

widget_start_exit(wd, t) ==
    [wd EXCEPT !.anim = animator_start(wd.anim, wd.seq_map[wd.src], map_exit_of(wd, wd.src), t),
               !.phase = TR_EXIT]

widget_start_enter(wd, t) ==
    [wd EXCEPT !.anim = animator_start(wd.anim, wd.seq_map[wd.src], map_enter_of(wd, wd.src), t),
               !.phase = TR_ENTER]

\* step_then_draw: step first, clear the box if opaque, draw if still active.
step_then_draw(wd, shown, t) ==
    LET s == animator_step(wd.anim, t)
    IN  [w |-> [wd EXCEPT !.anim = s.a],
         disp |-> IF s.a.active /\ s.a.count # 0
                  THEN [seq |-> wd.src, idx |-> s.a.idx]
                  ELSE IF wd.blit = "BLIT_OPAQUE" THEN NoFrame ELSE shown,
         r |-> s.r]

widget_init(seq_map, dirs, blit, state_count, initial_state, t) ==
    [seq_map |-> seq_map, dirs |-> dirs, state_count |-> state_count, blit |-> blit,
     phase |-> TR_IDLE, src |-> initial_state, dst |-> initial_state,
     pending |-> NO_PENDING, last_query_result |-> initial_state,
     last_state_change |-> t, stuck_timeout |-> U32(0),
     initialized |-> TRUE, anim |-> ZeroAnimator]

\* widget_tick, step 1: an out-of-range query result is replaced by src.
widget_desired(wd, q) == IF q >= wd.state_count THEN wd.src ELSE q

\* Variant of the watchdog that resets to the state shown before, not to
\* the desired one.
widget_watchdog_keep_src(wd, desired, t) ==
    LET w1 == IF desired # wd.last_query_result
              THEN [wd EXCEPT !.last_query_result = desired,
                              !.last_state_change = t,
                              !.stuck_timeout = U32(0)]
              ELSE wd
        w2 == IF /\ w1.phase # TR_IDLE
                 /\ U32IsZero(w1.stuck_timeout)
                 /\ U32Gt(U32Sub(t, w1.last_state_change), WIDGET_WATCHDOG_TIMEOUT_MS)
              THEN [w1 EXCEPT !.stuck_timeout = t]
              ELSE w1
    IN  IF /\ ~U32IsZero(w2.stuck_timeout)
           /\ U32Gt(U32Sub(t, w2.stuck_timeout), WIDGET_WATCHDOG_GRACE_MS)
        THEN [w |-> [w2 EXCEPT !.phase = TR_IDLE, !.dst = w2.src,
                               !.pending = NO_PENDING, !.anim.active = FALSE,
                               !.stuck_timeout = U32(0)],
              forced |-> TRUE]
        ELSE [w |-> w2, forced |-> FALSE]

\* widget_tick, step 2: the watchdog.  forced says the tick ends here with a
\* forced reset.
widget_watchdog(wd, desired, t) ==
    LET w1 == IF desired # wd.last_query_result
              THEN [wd EXCEPT !.last_query_result = desired,
                              !.last_state_change = t,
                              !.stuck_timeout = U32(0)]
              ELSE wd
        w2 == IF /\ w1.phase # TR_IDLE
                 /\ U32IsZero(w1.stuck_timeout)
                 /\ U32Gt(U32Sub(t, w1.last_state_change), WIDGET_WATCHDOG_TIMEOUT_MS)
              THEN [w1 EXCEPT !.stuck_timeout = t]
              ELSE w1
    IN  IF /\ ~U32IsZero(w2.stuck_timeout)
           /\ U32Gt(U32Sub(t, w2.stuck_timeout), WIDGET_WATCHDOG_GRACE_MS)
        THEN [w |-> [w2 EXCEPT !.phase = TR_IDLE, !.src = desired, !.dst = desired,
                               !.pending = NO_PENDING, !.anim.active = FALSE,
                               !.stuck_timeout = U32(0)],
              forced |-> TRUE]
        ELSE [w |-> w2, forced |-> FALSE]

\* widget_tick, step 3, phase TR_IDLE.
widget_idle_phase(wd, desired, shown, t) ==
    IF desired # wd.src
    THEN [w |-> widget_start_exit([wd EXCEPT !.dst = desired], t), disp |-> shown, r |-> "none"]
    ELSE [w |-> wd, disp |-> draw_state_steady(wd, wd.src), r |-> "none"]

\* Variant that keeps the first target when another one arrives mid-exit.
widget_exit_phase_first_wins(wd, desired, shown, t) ==
    LET w1 == IF desired = wd.src /\ wd.dst # wd.src
              THEN [wd EXCEPT !.anim = animator_reverse(wd.anim, t), !.dst = wd.src]
              ELSE wd
        s  == step_then_draw(w1, shown, t)
    IN  IF s.r = ANIM_RUNNING THEN s
        ELSE IF s.r = ANIM_DONE_AT_START
        THEN [w |-> widget_start_enter([s.w EXCEPT !.src = s.w.dst], t),
              disp |-> s.disp, r |-> s.r]
        ELSE [w |-> [s.w EXCEPT !.phase = TR_IDLE],
              disp |-> draw_state_steady(s.w, s.w.src), r |-> s.r]

\* widget_tick, step 3, phase TR_EXIT.
widget_exit_phase(wd, desired, shown, t) ==
    LET w1 == IF desired = wd.src /\ wd.dst # wd.src
              THEN [wd EXCEPT !.anim = animator_reverse(wd.anim, t), !.dst = wd.src]
              ELSE IF desired # wd.dst
              THEN [wd EXCEPT !.dst = desired]
              ELSE wd
        s  == step_then_draw(w1, shown, t)
    IN  IF s.r = ANIM_RUNNING THEN s
        ELSE IF s.r = ANIM_DONE_AT_START
        THEN [w |-> widget_start_enter([s.w EXCEPT !.src = s.w.dst], t),
              disp |-> s.disp, r |-> s.r]
        ELSE [w |-> [s.w EXCEPT !.phase = TR_IDLE],
              disp |-> draw_state_steady(s.w, s.w.src), r |-> s.r]

\* widget_tick, step 3, phase TR_ENTER.
widget_enter_phase(wd, desired, shown, t) ==
    LET w1 == IF desired # wd.src
              THEN [wd EXCEPT !.anim = animator_reverse(wd.anim, t), !.pending = desired]
              ELSE wd
        s  == step_then_draw(w1, shown, t)
        w2 == [s.w EXCEPT !.phase = TR_IDLE]
    IN  IF s.r = ANIM_RUNNING THEN s
        ELSE IF s.r = ANIM_DONE_AT_END
        THEN [w |-> w2, disp |-> draw_state_steady(w2, w2.src), r |-> s.r]
        ELSE IF w2.pending # NO_PENDING /\ w2.pending # w2.src
        THEN [w |-> widget_start_exit([w2 EXCEPT !.dst = w2.pending,
                                                 !.pending = NO_PENDING], t),
              disp |-> draw_state_steady(w2, w2.src), r |-> s.r]
        ELSE [w |-> w2, disp |-> draw_state_steady(w2, w2.src), r |-> s.r]

\* widget_tick: the new struct, the frame on the display, the animator's
\* result (r, "none" when no step was made), whether the watchdog forced a
\* reset, and the desired state the tick worked with.
widget_tick(wd, q, shown, t) ==
    IF ~wd.initialized
    THEN [w |-> wd, disp |-> shown, r |-> "none", forced |-> FALSE, desired |-> q]
    ELSE LET desired == widget_desired(wd, q)
             wdg     == widget_watchdog(wd, desired, t)
             s       == CASE wdg.w.phase = TR_IDLE  -> widget_idle_phase(wdg.w, desired, shown, t)
                          [] wdg.w.phase = TR_EXIT  -> widget_exit_phase(wdg.w, desired, shown, t)
                          [] wdg.w.phase = TR_ENTER -> widget_enter_phase(wdg.w, desired, shown, t)
         IN  IF wdg.forced
             THEN [w |-> wdg.w, disp |-> draw_state_steady(wdg.w, wdg.w.src),
                   r |-> "none", forced |-> TRUE, desired |-> desired]
             ELSE [w |-> s.w, disp |-> s.disp, r |-> s.r,
                   forced |-> FALSE, desired |-> desired]

(***************************************************************************)
(* Unit "widget": a widget_t ticked every 40 or 80 ms with a polled value. *)
(* History h, beyond the fields shared with the layer controller:          *)
(*   forced   the last tick ended in a watchdog forced reset               *)
(*   stuck    "stuck" while, ever since the tick at which the polled value *)
(*            last changed, every tick left the widget non-idle without a  *)
(*            boundary reported by the animator; "reset" once such a run   *)
(*            has ended in a forced reset and the polled value has not     *)
(*            changed since; "no" otherwise                                *)
(*   cstage, cS, cX   "cancel" from the tick at which, while entering cS,  *)
(*            the polled value became cX # cS, for as long as every later  *)
(*            tick polls cX; "none" otherwise                              *)
(***************************************************************************)
InitWidget ==
    /\ unit = "widget"
    /\ now = U32(0)
    /\ elapsed = 0
    /\ qt = ZeroQpToggle /\ qw = ZeroQpWidget /\ ts = ZeroTypingStats /\ rgb = ZeroRgbActivity
    /\ os = ZeroOneshot /\ ob = ZeroOutback /\ br = ZeroBootrev /\ un = ZeroUnified
    /\ a = ZeroAnimator
    /\ tog = ZeroToggle
    /\ lt = ZeroTransition
    /\ \E seq_map \in SeqMaps, dirs \in DirMaps, blit \in WidgetBlits, initial_state \in States :
        /\ w = widget_init(seq_map, dirs, blit, NumStates, initial_state, now)
        /\ disp = draw_state_steady(w, initial_state)
        /\ h = InitHistory(initial_state) @@
               [forced |-> FALSE, stuck |-> "no", cstage |-> "none", cS |-> 0, cX |-> 0]

\* History after a tick that polled q took the widget from wd to s.w.
HistoryOnTick(hh, wd, q, s) ==
    LET valid   == q < wd.state_count
        changed == s.desired # wd.last_query_result
        calm    == s.w.phase # TR_IDLE /\ s.r \in {"none", ANIM_RUNNING}
        h1      == HistoryOnRequest(hh, wd.phase, wd.src, q, valid, s.w.phase)
        h2      == HistoryOnRender(h1, wd.phase, Advanced(wd.anim, s.w.anim, s.r), s.w.phase)
        cancel  == valid /\ wd.phase = TR_ENTER /\ ~s.forced /\ q # wd.src
        keep    == valid /\ hh.cstage = "cancel" /\ q = hh.cX
    IN  [h2 EXCEPT
           !.op = "tick",
           !.forced = s.forced,
           !.stuck = IF changed
                     THEN (IF calm THEN "stuck" ELSE "no")
                     ELSE IF hh.stuck = "stuck"
                     THEN (IF s.forced THEN "reset"
                           ELSE IF calm THEN "stuck" ELSE "no")
                     ELSE hh.stuck,
           !.cstage = IF keep \/ cancel THEN "cancel" ELSE "none",
           !.cS = IF keep THEN @ ELSE IF cancel THEN wd.src ELSE 0,
           !.cX = IF keep THEN @ ELSE IF cancel THEN q ELSE 0]

WidgetTick ==
    /\ unit = "widget"
    /\ \E d \in TickSteps, q \in Requests :
        /\ elapsed + d <= MaxElapsedWidget
        /\ elapsed' = elapsed + d
        /\ now' = U32Add(now, d)
        /\ \E s \in {widget_tick(w, q, disp, now')} :
            /\ w' = s.w
            /\ disp' = s.disp
            /\ h' = HistoryOnTick(h, w, q, s)
    /\ UNCHANGED <<qt, qw, ts, rgb, os, ob, br, un, unit, a, tog, lt>>

NextWidget == WidgetTick

SpecWidget == InitWidget /\ [][NextWidget]_vars

\* C2 as stated: once the polled value has become cX while entering cS and
\* stays cX, the enter animation stays reversed until it is back at its start
\* boundary, and the widget gets to cX without a watchdog forced reset.
C2_MidEnterCancel ==
    (unit = "widget" /\ h.cstage = "cancel") =>
        /\ ~h.forced
        /\ (w.phase = TR_ENTER /\ w.src = h.cS) => w.anim.dir = -w.dirs[h.cS]

(***************************************************************************)
(* Specification of the two exclusive-state controllers together: a        *)
(* behaviour drives either a layer_transition_t or a widget_t.             *)
(***************************************************************************)
InitTr == InitLayer \/ InitWidget

NextTr == NextLayer \/ NextWidget

SpecTr == InitTr /\ [][NextTr]_vars

\* The controller being driven, its sequence lengths and exit directions.
Ctl == IF unit = "widget" THEN w ELSE lt

ExitForward(state) == unit = "widget" /\ map_exit_of(w, state)

\* C1: idle at qA, qB requested, then qC (neither qA nor qB) requested while
\* the exit leg of qA is running, nothing else afterwards: the exit goes on
\* frame by frame in its direction (index = start -/+ frames advanced), dst
\* is qC, src is never qB, an enter leg only ever enters qC, and when exit
\* and enter have finished the controller is idle with src = qC.
C1_QueuedTarget ==
    (unit \in {"layer", "widget"} /\ h.stage = "exitC") =>
        LET c   == Ctl
            fwd == ExitForward(h.qA)
            n   == c.seq_map[h.qA]
        IN  /\ h.qC \notin {h.qA, h.qB}
            /\ c.src \in {h.qA, h.qC}
            /\ (c.phase = TR_IDLE) <=> h.fin
            /\ (c.phase = TR_EXIT) =>
                   /\ c.src = h.qA
                   /\ c.dst = h.qC
                   /\ c.anim.active
                   /\ c.anim.dir = (IF fwd THEN 1 ELSE -1)
                   /\ c.anim.idx = (IF fwd THEN h.due ELSE n - 1 - h.due)
            /\ (c.phase = TR_ENTER) => (c.src = h.qC /\ h.entered)
            /\ (h.fin /\ h.entered) => (c.src = h.qC /\ c.dst = h.qC /\ ~c.anim.active)

\* C1 witness: a widget whose target was changed from qB to qC during a
\* multi-frame exit has finished exit and enter and is idle at qC.
C1_Witness ==
    /\ unit = "widget" /\ h.stage = "exitC" /\ h.fin /\ h.entered
    /\ h.due >= 3 /\ w.phase = TR_IDLE /\ w.src = h.qC /\ h.qB # h.qC

\* C3 as stated: while exiting src, whenever the last desired state is src
\* again (whatever was requested before within the same exit, and also when
\* the request is repeated) the animator plays back toward src's steady frame
\* and dst is src.
C3_MidExitRevert ==
    (unit \in {"layer", "widget"} /\ Ctl.phase = TR_EXIT /\ h.lastReq = Ctl.src) =>
        /\ Ctl.dst = Ctl.src
        /\ Ctl.anim.dir = (IF ExitForward(Ctl.src) THEN -1 ELSE 1)

(***************************************************************************)
(* Unit "watchdog": a widget_t ticked every 40 or 80 ms for long enough    *)
(* that the watchdog can act, with a polled value that changes at most     *)
(* MaxPollChanges times.  History as for the unit "widget", and lastq =    *)
(* the value polled last, changes = how often it has changed.              *)
(***************************************************************************)
InitWatchdog ==
    /\ unit = "watchdog"
    /\ now = U32(0)
    /\ elapsed = 0
    /\ qt = ZeroQpToggle /\ qw = ZeroQpWidget /\ ts = ZeroTypingStats /\ rgb = ZeroRgbActivity
    /\ os = ZeroOneshot /\ ob = ZeroOutback /\ br = ZeroBootrev /\ un = ZeroUnified
    /\ a = ZeroAnimator
    /\ tog = ZeroToggle
    /\ lt = ZeroTransition
    /\ \E seq_map \in SeqMaps, dirs \in DirMaps, blit \in WidgetBlits, initial_state \in {0} :
        /\ w = widget_init(seq_map, dirs, blit, NumStates, initial_state, now)
        /\ disp = draw_state_steady(w, initial_state)
        /\ h = InitHistory(initial_state) @@
               [forced |-> FALSE, stuck |-> "no", cstage |-> "none", cS |-> 0, cX |-> 0,
                lastq |-> initial_state, changes |-> 0]

\* The watchdog runs keep only the watchdog's part of the history.
WatchdogHistory(hh, wd, q, s) ==
    [HistoryOnTick(hh, wd, q, s) EXCEPT
       !.lastReq = 0, !.stage = "none", !.qA = 0, !.qB = 0, !.qC = 0, !.due = 0,
       !.entered = FALSE, !.fin = FALSE, !.cstage = "none", !.cS = 0, !.cX = 0,
       !.lastq = q,
       !.changes = IF q = hh.lastq THEN @ ELSE @ + 1]

\* Values the query callback returns in the watchdog runs: every state and
\* one value out of range.
PollValues == States \cup {NumStates}

WatchdogTick ==
    /\ unit = "watchdog"
    /\ \E d \in TickSteps, q \in PollValues :
        /\ elapsed + d <= MaxElapsedWatchdog
        /\ h.changes + (IF q = h.lastq THEN 0 ELSE 1) <= MaxPollChanges
        /\ elapsed' = elapsed + d
        /\ now' = U32Add(now, d)
        /\ \E s \in {widget_tick(w, q, disp, now')} :
            /\ w' = s.w
            /\ disp' = s.disp
            /\ h' = WatchdogHistory(h, w, q, s)
    /\ UNCHANGED <<qt, qw, ts, rgb, os, ob, br, un, unit, a, tog, lt>>

NextWatchdog == WatchdogTick

SpecWatchdog == InitWatchdog /\ [][NextWatchdog]_vars

\* Milliseconds since the polled value last changed.
SinceChange == U32Sub(now, w.last_state_change)

WidgetIdleAt(state) ==
    /\ w.phase = TR_IDLE
    /\ w.src = state
    /\ w.dst = state
    /\ w.pending = NO_PENDING
    /\ ~w.anim.active

\* C5 (as amended): a widget that has been non-idle, without a boundary
\* reported by its animator, ever since the polled value last changed (to D)
\* is force-reset at the first tick more than WIDGET_WATCHDOG_GRACE_MS after
\* the first tick more than WIDGET_WATCHDOG_TIMEOUT_MS after that change:
\* never before more than timeout + grace ms have passed, and, with ticks at
\* most MaxTick ms apart, no later than timeout + grace + 2 * MaxTick ms
\* after the change.  From the reset on it is idle at D: phase TR_IDLE,
\* src = dst = D, pending none, animator inactive.
C5_WatchdogRecovery ==
    (unit = "watchdog") =>
        LET limit == WIDGET_WATCHDOG_TIMEOUT_MS + WIDGET_WATCHDOG_GRACE_MS
        IN  /\ (h.stuck = "stuck") =>
                   (w.phase # TR_IDLE /\ ~U32Gt(SinceChange, limit + 2 * MaxTick))
            /\ (h.stuck = "reset") => WidgetIdleAt(w.last_query_result)
            /\ (h.stuck = "reset" /\ h.forced) =>
                   (U32Gt(SinceChange, limit) /\ ~U32Gt(SinceChange, limit + 2 * MaxTick))
            /\ (h.forced) => WidgetIdleAt(w.last_query_result)

\* C5 witness: a stuck widget has just been force-reset to the polled value.
C5_Witness ==
    /\ unit = "watchdog" /\ h.stuck = "reset" /\ h.forced
    /\ h.lastq = w.last_query_result /\ WidgetIdleAt(h.lastq)

\* C5 as originally stated: once timeout + grace ms have passed since the
\* polled value changed to D, a widget that was non-idle without a boundary
\* all that time is idle at D.
C5_Original ==
    (unit = "watchdog" /\ h.stuck # "no"
       /\ U32Gt(SinceChange, WIDGET_WATCHDOG_TIMEOUT_MS + WIDGET_WATCHDOG_GRACE_MS - 1)) =>
        WidgetIdleAt(w.last_query_result)


(***************************************************************************)
(* The three reversible controllers together: a behaviour drives a         *)
(* toggle_anim_t, a layer_transition_t or a widget_t.                      *)
(***************************************************************************)
InitCtl == InitToggle \/ InitLayer \/ InitWidget

NextCtl == NextToggle \/ NextLayer \/ NextWidget

SpecCtl == InitCtl /\ [][NextCtl]_vars

\* The animator an2 is the running animator an with the same sequence and
\* frame index and the opposite direction.
AnimatorKept(an, an2) ==
    /\ an.active /\ an2.active
    /\ an2.count = an.count
    /\ an2.idx = an.idx
    /\ an2.dir = -an.dir

\* C11: in every reachable state of a toggle, layer or widget controller, a
\* request that cancels the running animation (toggle: the opposite value
\* while entering / exiting; layer and widget: src while exiting toward
\* another state, another state while entering src) leaves the animator
\* active on the same sequence with the frame index it had before the
\* request and the direction negated, and leaves phase kind and src alone
\* (the toggle changes to the opposite animating phase).  For the widget
\* the request is a tick 40 or 80 ms later that is not a watchdog reset.
C11_CancelKeepsFrame ==
    /\ (unit = "toggle") =>
          \A want_on \in BOOLEAN :
              ((tog.phase = TOG_ENTERING /\ ~want_on) \/ (tog.phase = TOG_EXITING /\ want_on)) =>
                  LET t2 == toggle_anim_set(tog, want_on, now)
                  IN  /\ AnimatorKept(tog.anim, t2.anim)
                      /\ t2.phase = (IF want_on THEN TOG_ENTERING ELSE TOG_EXITING)
    /\ (unit = "layer") =>
          \A desired \in States :
              ((lt.phase = TR_EXIT /\ desired = lt.src /\ lt.dst # lt.src)
                  \/ (lt.phase = TR_ENTER /\ desired # lt.src)) =>
                  LET t2 == layer_tr_request(lt, desired, now)
                  IN  /\ AnimatorKept(lt.anim, t2.anim)
                      /\ t2.phase = lt.phase /\ t2.src = lt.src
    /\ (unit = "widget") =>
          \A q \in States, d \in TickSteps :
              ((w.phase = TR_EXIT /\ q = w.src /\ w.dst # w.src)
                  \/ (w.phase = TR_ENTER /\ q # w.src)) =>
                  LET s == widget_tick(w, q, disp, U32Add(now, d))
                  IN  ~s.forced =>
                          /\ AnimatorKept(w.anim, s.w.anim)
                          /\ s.w.phase = w.phase /\ s.w.src = w.src

\* C11 witness: a widget entering cS has just been cancelled at a frame other
\* than the first one of the enter leg: still entering cS, same sequence,
\* direction opposite to the enter direction.
C11_Witness ==
    /\ unit = "widget" /\ h.op = "tick" /\ h.cstage = "cancel" /\ ~h.forced
    /\ w.phase = TR_ENTER /\ w.src = h.cS /\ w.anim.active
    /\ w.anim.dir = -w.dirs[h.cS]
    /\ w.anim.idx \notin {0, w.anim.count - 1}


(***************************************************************************)
(* One-shot, out-and-back and boot-reverse controllers (oneshot_anim_t,    *)
(* outback_anim_t, bootrev_anim_t).  seq is the frame count of the         *)
(* sequence (0: null or empty).  The render operators give the new         *)
(* struct, the frame on the display afterwards, the bool returned (ret)    *)
(* and the animator's result (r, "none" when idle).                        *)
(***************************************************************************)
oneshot_draw_steady_blend(c, shown) ==
    IF c.seq = 0 THEN shown
    ELSE [seq |-> 0, idx |-> IF c.steady_at_end THEN c.seq - 1 ELSE 0]

oneshot_anim_init(seq, steady_at_end, run_boot_anim, shown, t) ==
    LET c == [seq |-> seq, steady_at_end |-> steady_at_end, phase |-> ONESHOT_IDLE,
              boot_done |-> FALSE, anim |-> ZeroAnimator]
    IN  IF run_boot_anim /\ seq # 0
        THEN [c |-> [c EXCEPT !.anim = animator_start(c.anim, seq, TRUE, t),
                              !.phase = ONESHOT_BOOT],
              disp |-> shown]
        ELSE [c |-> [c EXCEPT !.phase = ONESHOT_IDLE, !.boot_done = TRUE],
              disp |-> oneshot_draw_steady_blend(c, shown)]

oneshot_anim_trigger(c, t) ==
    IF ~c.boot_done \/ c.seq = 0 THEN c
    ELSE [c EXCEPT !.anim = animator_start(c.anim, c.seq, TRUE, t),
                   !.phase = ONESHOT_TRIGGERED]

\* Level-triggered variant: an idle render after a finished boot also
\* returns true.
oneshot_anim_render_blend_level(c, shown, t) ==
    IF c.phase = ONESHOT_IDLE
    THEN [c |-> c, disp |-> oneshot_draw_steady_blend(c, shown), ret |-> c.boot_done, r |-> "none"]
    ELSE LET s  == animator_step_and_draw(c.anim, 0, shown, t)
             c1 == [c EXCEPT !.anim = s.a]
         IN  IF s.r = ANIM_DONE_AT_END
             THEN LET c2 == [c1 EXCEPT !.phase = ONESHOT_IDLE,
                                       !.boot_done = (c.phase = ONESHOT_BOOT) \/ @]
                  IN  [c |-> c2, disp |-> oneshot_draw_steady_blend(c2, s.disp),
                       ret |-> TRUE, r |-> s.r]
             ELSE [c |-> c1, disp |-> s.disp, ret |-> FALSE, r |-> s.r]

oneshot_anim_render_blend(c, shown, t) ==
    IF c.phase = ONESHOT_IDLE
    THEN [c |-> c, disp |-> oneshot_draw_steady_blend(c, shown), ret |-> FALSE, r |-> "none"]
    ELSE LET s  == animator_step_and_draw(c.anim, 0, shown, t)
             c1 == [c EXCEPT !.anim = s.a]
         IN  IF s.r = ANIM_DONE_AT_END
             THEN LET c2 == [c1 EXCEPT !.phase = ONESHOT_IDLE,
                                       !.boot_done = (c.phase = ONESHOT_BOOT) \/ @]
                  IN  [c |-> c2, disp |-> oneshot_draw_steady_blend(c2, s.disp),
                       ret |-> TRUE, r |-> s.r]
             ELSE [c |-> c1, disp |-> s.disp, ret |-> FALSE, r |-> s.r]

\* Variant whose steady frame is the first frame, whatever the configuration.
outback_draw_steady_first(c, shown) ==
    IF c.seq = 0 THEN shown ELSE [seq |-> 0, idx |-> 0]

outback_draw_steady(c, shown) ==
    IF c.seq = 0 THEN shown
    ELSE [seq |-> 0, idx |-> IF c.steady_at_end THEN c.seq - 1 ELSE 0]

outback_anim_init(seq, steady_at_end, run_boot_anim, shown, t) ==
    LET c == [seq |-> seq, steady_at_end |-> steady_at_end, phase |-> OUTBACK_IDLE,
              boot_done |-> FALSE, anim |-> ZeroAnimator]
    IN  IF run_boot_anim /\ seq # 0
        THEN [c |-> [c EXCEPT !.anim = animator_start(c.anim, seq, TRUE, t),
                              !.phase = OUTBACK_BOOT],
              disp |-> shown]
        ELSE [c |-> [c EXCEPT !.phase = OUTBACK_IDLE, !.boot_done = TRUE],
              disp |-> outback_draw_steady(c, shown)]

outback_anim_trigger(c, t) ==
    IF ~c.boot_done \/ c.seq = 0 THEN c
    ELSE [c EXCEPT !.anim = animator_start(c.anim, c.seq, TRUE, t),
                   !.phase = OUTBACK_OUT]

\* Variant that reports completion at the forward end of a triggered cycle.
outback_anim_render_early(c, shown, t) ==
    IF c.phase = OUTBACK_IDLE
    THEN [c |-> c, disp |-> outback_draw_steady(c, shown), ret |-> FALSE, r |-> "none"]
    ELSE LET s  == animator_step_and_draw(c.anim, 0, shown, t)
             c1 == [c EXCEPT !.anim = s.a]
         IN  CASE c.phase = OUTBACK_BOOT /\ s.r = ANIM_DONE_AT_END ->
                    LET c2 == [c1 EXCEPT !.phase = OUTBACK_IDLE, !.boot_done = TRUE]
                    IN  [c |-> c2, disp |-> outback_draw_steady(c2, s.disp),
                         ret |-> TRUE, r |-> s.r]
               [] c.phase = OUTBACK_OUT /\ s.r = ANIM_DONE_AT_END ->
                    [c |-> [c1 EXCEPT !.anim = animator_start(c1.anim, c.seq, FALSE, t),
                                      !.phase = OUTBACK_BACK],
                     disp |-> s.disp, ret |-> TRUE, r |-> s.r]
               [] c.phase = OUTBACK_BACK /\ s.r = ANIM_DONE_AT_START ->
                    LET c2 == [c1 EXCEPT !.phase = OUTBACK_IDLE]
                    IN  [c |-> c2, disp |-> outback_draw_steady(c2, s.disp),
                         ret |-> TRUE, r |-> s.r]
               [] OTHER ->
                    [c |-> c1, disp |-> s.disp, ret |-> FALSE, r |-> s.r]

outback_anim_render(c, shown, t) ==
    IF c.phase = OUTBACK_IDLE
    THEN [c |-> c, disp |-> outback_draw_steady(c, shown), ret |-> FALSE, r |-> "none"]
    ELSE LET s  == animator_step_and_draw(c.anim, 0, shown, t)
             c1 == [c EXCEPT !.anim = s.a]
         IN  CASE c.phase = OUTBACK_BOOT /\ s.r = ANIM_DONE_AT_END ->
                    LET c2 == [c1 EXCEPT !.phase = OUTBACK_IDLE, !.boot_done = TRUE]
                    IN  [c |-> c2, disp |-> outback_draw_steady(c2, s.disp),
                         ret |-> TRUE, r |-> s.r]
               [] c.phase = OUTBACK_OUT /\ s.r = ANIM_DONE_AT_END ->
                    [c |-> [c1 EXCEPT !.anim = animator_start(c1.anim, c.seq, FALSE, t),
                                      !.phase = OUTBACK_BACK],
                     disp |-> s.disp, ret |-> FALSE, r |-> s.r]
               [] c.phase = OUTBACK_BACK /\ s.r = ANIM_DONE_AT_START ->
                    LET c2 == [c1 EXCEPT !.phase = OUTBACK_IDLE]
                    IN  [c |-> c2, disp |-> outback_draw_steady(c2, s.disp),
                         ret |-> TRUE, r |-> s.r]
               [] OTHER ->
                    [c |-> c1, disp |-> s.disp, ret |-> FALSE, r |-> s.r]

bootrev_draw_steady(c, shown) ==
    IF c.seq = 0 THEN shown ELSE [seq |-> 0, idx |-> c.seq - 1]

bootrev_anim_init(seq, run_boot_anim, shown, t) ==
    LET c == [seq |-> seq, phase |-> BOOTREV_IDLE, boot_done |-> FALSE, anim |-> ZeroAnimator]
    IN  IF run_boot_anim /\ seq # 0
        THEN [c |-> [c EXCEPT !.anim = animator_start(c.anim, seq, TRUE, t),
                              !.phase = BOOTREV_BOOT],
              disp |-> shown]
        ELSE [c |-> [c EXCEPT !.phase = BOOTREV_IDLE, !.boot_done = TRUE],
              disp |-> bootrev_draw_steady(c, shown)]

bootrev_anim_trigger(c, t) ==
    IF ~c.boot_done \/ c.seq = 0 THEN c
    ELSE [c EXCEPT !.anim = animator_start(c.anim, c.seq, FALSE, t),
                   !.phase = BOOTREV_OUT]

\* Variant without the return leg: idle as soon as the start is reached.
bootrev_anim_render_blend_no_back(c, shown, t) ==
    IF c.phase = BOOTREV_IDLE
    THEN [c |-> c, disp |-> bootrev_draw_steady(c, shown), ret |-> FALSE, r |-> "none"]
    ELSE LET s  == animator_step_and_draw(c.anim, 0, shown, t)
             c1 == [c EXCEPT !.anim = s.a]
         IN  CASE c.phase = BOOTREV_BOOT /\ s.r = ANIM_DONE_AT_END ->
                    LET c2 == [c1 EXCEPT !.phase = BOOTREV_IDLE, !.boot_done = TRUE]
                    IN  [c |-> c2, disp |-> bootrev_draw_steady(c2, s.disp),
                         ret |-> TRUE, r |-> s.r]
               [] c.phase = BOOTREV_OUT /\ s.r = ANIM_DONE_AT_START ->
                    LET c2 == [c1 EXCEPT !.phase = BOOTREV_IDLE]
                    IN  [c |-> c2, disp |-> bootrev_draw_steady(c2, s.disp),
                         ret |-> TRUE, r |-> s.r]
               [] c.phase = BOOTREV_BACK /\ s.r = ANIM_DONE_AT_END ->
                    LET c2 == [c1 EXCEPT !.phase = BOOTREV_IDLE]
                    IN  [c |-> c2, disp |-> bootrev_draw_steady(c2, s.disp),
                         ret |-> TRUE, r |-> s.r]
               [] OTHER ->
                    [c |-> c1, disp |-> s.disp, ret |-> FALSE, r |-> s.r]

bootrev_anim_render_blend(c, shown, t) ==
    IF c.phase = BOOTREV_IDLE
    THEN [c |-> c, disp |-> bootrev_draw_steady(c, shown), ret |-> FALSE, r |-> "none"]
    ELSE LET s  == animator_step_and_draw(c.anim, 0, shown, t)
             c1 == [c EXCEPT !.anim = s.a]
         IN  CASE c.phase = BOOTREV_BOOT /\ s.r = ANIM_DONE_AT_END ->
                    LET c2 == [c1 EXCEPT !.phase = BOOTREV_IDLE, !.boot_done = TRUE]
                    IN  [c |-> c2, disp |-> bootrev_draw_steady(c2, s.disp),
                         ret |-> TRUE, r |-> s.r]
               [] c.phase = BOOTREV_OUT /\ s.r = ANIM_DONE_AT_START ->
                    [c |-> [c1 EXCEPT !.anim = animator_start(c1.anim, c.seq, TRUE, t),
                                      !.phase = BOOTREV_BACK],
                     disp |-> s.disp, ret |-> FALSE, r |-> s.r]
               [] c.phase = BOOTREV_BACK /\ s.r = ANIM_DONE_AT_END ->
                    LET c2 == [c1 EXCEPT !.phase = BOOTREV_IDLE]
                    IN  [c |-> c2, disp |-> bootrev_draw_steady(c2, s.disp),
                         ret |-> TRUE, r |-> s.r]
               [] OTHER ->
                    [c |-> c1, disp |-> s.disp, ret |-> FALSE, r |-> s.r]


(***************************************************************************)
(* Unified controller (unified_anim_t).  The fields of *cfg that the code  *)
(* reads are kept in the record: behavior, seq (frame count of the         *)
(* sequence get_current_sequence returns, 0: none), steady,                *)
(* run_boot_anim.  last_trigger, target_state and pending_state are        *)
(* written but never read and are left out.                                *)
(***************************************************************************)
get_steady_frame(c) ==
    IF c.seq = 0 THEN NoFrame
    ELSE CASE c.behavior = ANIM_TOGGLE ->
                [seq |-> 0, idx |-> IF c.visible_on THEN c.seq - 1 ELSE 0]
           [] c.behavior = ANIM_BOOTREV ->
                [seq |-> 0, idx |-> c.seq - 1]
           [] OTHER ->
                [seq |-> 0, idx |-> IF c.steady = STEADY_LAST THEN c.seq - 1 ELSE 0]

draw_steady_frame(c, shown) ==
    IF get_steady_frame(c) = NoFrame THEN shown ELSE get_steady_frame(c)

render_animation_frame(c, shown, t) == animator_step_and_draw(c.anim, 0, shown, t)

unified_anim_init(cfg, initial_state, shown, t) ==
    LET c == [behavior |-> cfg.behavior, seq |-> cfg.seq, steady |-> cfg.steady,
              run_boot_anim |-> cfg.run_boot_anim, phase |-> PHASE_IDLE,
              boot_done |-> FALSE, visible_on |-> (initial_state # 0),
              desired_on |-> (initial_state # 0), anim |-> ZeroAnimator]
    IN  IF cfg.run_boot_anim /\ cfg.seq # 0
        THEN [c |-> [c EXCEPT !.anim = animator_start(c.anim, c.seq, TRUE, t),
                              !.phase = PHASE_BOOT],
              disp |-> shown]
        ELSE [c |-> [c EXCEPT !.boot_done = TRUE],
              disp |-> draw_steady_frame(c, shown)]

unified_anim_trigger(c, state_or_toggle, t) ==
    IF c.seq = 0 THEN c
    ELSE CASE c.behavior \in {ANIM_ONESHOT, ANIM_OUTBACK} ->
                IF c.boot_done /\ c.phase = PHASE_IDLE
                THEN [c EXCEPT !.anim = animator_start(c.anim, c.seq, TRUE, t),
                               !.phase = PHASE_FORWARD]
                ELSE c
           [] c.behavior = ANIM_TOGGLE ->
                LET want == state_or_toggle # 0
                    c1   == [c EXCEPT !.desired_on = want]
                IN  IF want # c.visible_on /\ c.phase = PHASE_IDLE
                    THEN [c1 EXCEPT !.anim = animator_start(c.anim, c.seq, want, t),
                                    !.phase = IF want THEN PHASE_FORWARD ELSE PHASE_REVERSE]
                    ELSE c1
           [] c.behavior = ANIM_BOOTREV ->
                IF c.boot_done /\ c.phase = PHASE_IDLE
                THEN [c EXCEPT !.anim = animator_start(c.anim, c.seq, FALSE, t),
                               !.phase = PHASE_REVERSE]
                ELSE c
           [] OTHER -> c

\* A finished leg: back to idle, steady frame drawn, true returned.
unified_settle(c1, s, boot, on) ==
    LET c2 == [c1 EXCEPT !.phase = PHASE_IDLE, !.boot_done = boot, !.visible_on = on]
    IN  [c |-> c2, disp |-> draw_steady_frame(c2, s.disp), ret |-> TRUE, r |-> s.r]

\* The next leg begins: the animator is restarted, false returned.
unified_restart(c1, s, forward, phase, t) ==
    [c |-> [c1 EXCEPT !.anim = animator_start(c1.anim, c1.seq, forward, t), !.phase = phase],
     disp |-> s.disp, ret |-> FALSE, r |-> s.r]

handle_oneshot_behavior(c, shown, t) ==
    IF c.phase = PHASE_IDLE
    THEN [c |-> c, disp |-> draw_steady_frame(c, shown), ret |-> FALSE, r |-> "none"]
    ELSE IF c.phase \in {PHASE_BOOT, PHASE_FORWARD}
    THEN LET s  == render_animation_frame(c, shown, t)
             c1 == [c EXCEPT !.anim = s.a]
         IN  IF s.r = ANIM_DONE_AT_END
             THEN unified_settle(c1, s, c.boot_done, c.visible_on)
             ELSE [c |-> c1, disp |-> s.disp, ret |-> FALSE, r |-> s.r]
    ELSE [c |-> c, disp |-> shown, ret |-> FALSE, r |-> "none"]

handle_outback_behavior(c, shown, t) ==
    IF c.phase = PHASE_IDLE
    THEN [c |-> c, disp |-> draw_steady_frame(c, shown), ret |-> FALSE, r |-> "none"]
    ELSE LET s  == render_animation_frame(c, shown, t)
             c1 == [c EXCEPT !.anim = s.a]
         IN  CASE c.phase = PHASE_BOOT /\ s.r = ANIM_DONE_AT_END ->
                    unified_settle(c1, s, TRUE, c.visible_on)
               [] c.phase = PHASE_FORWARD /\ s.r = ANIM_DONE_AT_END ->
                    unified_restart(c1, s, FALSE, PHASE_REVERSE, t)
               [] c.phase = PHASE_REVERSE /\ s.r = ANIM_DONE_AT_START ->
                    unified_settle(c1, s, c.boot_done, c.visible_on)
               [] OTHER ->
                    [c |-> c1, disp |-> s.disp, ret |-> FALSE, r |-> s.r]

handle_toggle_behavior(c, shown, t) ==
    IF c.phase = PHASE_IDLE
    THEN [c |-> c, disp |-> draw_steady_frame(c, shown), ret |-> FALSE, r |-> "none"]
    ELSE IF c.phase \in {PHASE_FORWARD, PHASE_REVERSE}
    THEN LET s  == render_animation_frame(c, shown, t)
             c1 == [c EXCEPT !.anim = s.a]
         IN  CASE c.phase = PHASE_FORWARD /\ s.r = ANIM_DONE_AT_END ->
                    unified_settle(c1, s, c.boot_done, TRUE)
               [] c.phase = PHASE_REVERSE /\ s.r = ANIM_DONE_AT_START ->
                    unified_settle(c1, s, c.boot_done, FALSE)
               [] OTHER ->
                    [c |-> c1, disp |-> s.disp, ret |-> FALSE, r |-> s.r]
    ELSE [c |-> c, disp |-> shown, ret |-> FALSE, r |-> "none"]

handle_bootrev_behavior(c, shown, t) ==
    IF c.phase = PHASE_IDLE
    THEN [c |-> c, disp |-> draw_steady_frame(c, shown), ret |-> FALSE, r |-> "none"]
    ELSE LET s  == render_animation_frame(c, shown, t)
             c1 == [c EXCEPT !.anim = s.a]
         IN  CASE c.phase = PHASE_BOOT /\ s.r = ANIM_DONE_AT_END ->
                    unified_settle(c1, s, TRUE, c.visible_on)
               [] c.phase = PHASE_REVERSE /\ s.r = ANIM_DONE_AT_START ->
                    unified_restart(c1, s, TRUE, PHASE_FORWARD, t)
               [] c.phase = PHASE_FORWARD /\ s.r = ANIM_DONE_AT_END ->
                    unified_settle(c1, s, c.boot_done, c.visible_on)
               [] OTHER ->
                    [c |-> c1, disp |-> s.disp, ret |-> FALSE, r |-> s.r]

unified_anim_render(c, shown, t) ==
    CASE c.behavior = ANIM_ONESHOT -> handle_oneshot_behavior(c, shown, t)
      [] c.behavior = ANIM_OUTBACK -> handle_outback_behavior(c, shown, t)
      [] c.behavior = ANIM_TOGGLE  -> handle_toggle_behavior(c, shown, t)
      [] c.behavior = ANIM_BOOTREV -> handle_bootrev_behavior(c, shown, t)
      [] OTHER -> [c |-> c, disp |-> shown, ret |-> FALSE, r |-> "none"]


(***************************************************************************)
(* Units "oneshot", "outback", "bootrev", "unified": one controller,       *)
(* constructed by its init function at t = 0 and then driven through       *)
(* trigger and render while time moves on.  History: op = the last call,   *)
(* pre = the phase before it, ret = what the last render returned, r =     *)
(* the animator's result in the last render, boot = whether init started   *)
(* the boot animation.                                                     *)
(***************************************************************************)
TrigUnits == {"oneshot", "outback", "bootrev", "unified"}

TrigHistory(c) ==
    [op |-> "init", pre |-> c.phase, ret |-> FALSE, r |-> "none", boot |-> ~c.boot_done]

OnTrigger(hh, c) == [hh EXCEPT !.op = "trigger", !.pre = c.phase]

OnRender(hh, c, s) == [hh EXCEPT !.op = "render", !.pre = c.phase, !.ret = s.ret, !.r = s.r]

InitTrigCommon ==
    /\ now = U32(0)
    /\ elapsed = 0
    /\ qt = ZeroQpToggle /\ qw = ZeroQpWidget /\ ts = ZeroTypingStats /\ rgb = ZeroRgbActivity
    /\ a = ZeroAnimator
    /\ tog = ZeroToggle
    /\ lt = ZeroTransition
    /\ w = ZeroWidget

InitOneshot ==
    /\ unit = "oneshot"
    /\ InitTrigCommon
    /\ ob = ZeroOutback /\ br = ZeroBootrev /\ un = ZeroUnified
    /\ \E seq \in 0..MaxCount, steady_at_end \in BOOLEAN, run_boot_anim \in BOOLEAN :
        \E s \in {oneshot_anim_init(seq, steady_at_end, run_boot_anim, NoFrame, now)} :
            /\ os = s.c
            /\ disp = s.disp
            /\ h = TrigHistory(s.c)

OneshotTrigger ==
    /\ unit = "oneshot"
    /\ os' = oneshot_anim_trigger(os, now)
    /\ h' = OnTrigger(h, os)
    /\ UNCHANGED <<qt, qw, ts, rgb, unit, now, elapsed, a, tog, lt, w, ob, br, un, disp>>

OneshotRender ==
    /\ unit = "oneshot"
    /\ \E s \in {oneshot_anim_render_blend(os, disp, now)} :
        /\ os' = s.c
        /\ disp' = s.disp
        /\ h' = OnRender(h, os, s)
    /\ UNCHANGED <<qt, qw, ts, rgb, unit, now, elapsed, a, tog, lt, w, ob, br, un>>

InitOutback ==
    /\ unit = "outback"
    /\ InitTrigCommon
    /\ os = ZeroOneshot /\ br = ZeroBootrev /\ un = ZeroUnified
    /\ \E seq \in 0..MaxCount, steady_at_end \in BOOLEAN, run_boot_anim \in BOOLEAN :
        \E s \in {outback_anim_init(seq, steady_at_end, run_boot_anim, NoFrame, now)} :
            /\ ob = s.c
            /\ disp = s.disp
            /\ h = TrigHistory(s.c)

OutbackTrigger ==
    /\ unit = "outback"
    /\ ob' = outback_anim_trigger(ob, now)
    /\ h' = OnTrigger(h, ob)
    /\ UNCHANGED <<qt, qw, ts, rgb, unit, now, elapsed, a, tog, lt, w, os, br, un, disp>>

OutbackRender ==
    /\ unit = "outback"
    /\ \E s \in {outback_anim_render(ob, disp, now)} :
        /\ ob' = s.c
        /\ disp' = s.disp
        /\ h' = OnRender(h, ob, s)
    /\ UNCHANGED <<qt, qw, ts, rgb, unit, now, elapsed, a, tog, lt, w, os, br, un>>

InitBootrev ==
    /\ unit = "bootrev"
    /\ InitTrigCommon
    /\ os = ZeroOneshot /\ ob = ZeroOutback /\ un = ZeroUnified
    /\ \E seq \in 0..MaxCount, run_boot_anim \in BOOLEAN :
        \E s \in {bootrev_anim_init(seq, run_boot_anim, NoFrame, now)} :
            /\ br = s.c
            /\ disp = s.disp
            /\ h = TrigHistory(s.c)

BootrevTrigger ==
    /\ unit = "bootrev"
    /\ br' = bootrev_anim_trigger(br, now)
    /\ h' = OnTrigger(h, br)
    /\ UNCHANGED <<qt, qw, ts, rgb, unit, now, elapsed, a, tog, lt, w, os, ob, un, disp>>

BootrevRender ==
    /\ unit = "bootrev"
    /\ \E s \in {bootrev_anim_render_blend(br, disp, now)} :
        /\ br' = s.c
        /\ disp' = s.disp
        /\ h' = OnRender(h, br, s)
    /\ UNCHANGED <<qt, qw, ts, rgb, unit, now, elapsed, a, tog, lt, w, os, ob, un>>

\* Configurations as the UNIFIED_*_CONFIG macros build them.
UnifiedConfigs ==
    {[behavior |-> b, seq |-> n, steady |-> st, run_boot_anim |-> rb] :
        b \in {ANIM_ONESHOT, ANIM_OUTBACK}, n \in 0..MaxCount,
        st \in {STEADY_FIRST, STEADY_LAST}, rb \in BOOLEAN}
    \cup {[behavior |-> ANIM_TOGGLE, seq |-> n, steady |-> STEADY_FIRST, run_boot_anim |-> FALSE] :
        n \in 0..MaxCount}
    \cup {[behavior |-> ANIM_BOOTREV, seq |-> n, steady |-> STEADY_LAST, run_boot_anim |-> rb] :
        n \in 0..MaxCount, rb \in BOOLEAN}
    \cup {[behavior |-> ANIM_LAYER_TRANSITION, seq |-> n, steady |-> STEADY_LAST,
           run_boot_anim |-> FALSE] : n \in 0..MaxCount}

InitUnified ==
    /\ unit = "unified"
    /\ InitTrigCommon
    /\ os = ZeroOneshot /\ ob = ZeroOutback /\ br = ZeroBootrev
    /\ \E cfg \in UnifiedConfigs, initial_state \in {0, 1} :
        \E s \in {unified_anim_init(cfg, initial_state, NoFrame, now)} :
            /\ un = s.c
            /\ disp = s.disp
            /\ h = TrigHistory(s.c)

UnifiedTrigger ==
    /\ unit = "unified"
    /\ \E state_or_toggle \in {0, 1} :
        un' = unified_anim_trigger(un, state_or_toggle, now)
    /\ h' = OnTrigger(h, un)
    /\ UNCHANGED <<qt, qw, ts, rgb, unit, now, elapsed, a, tog, lt, w, os, ob, br, disp>>

UnifiedRender ==
    /\ unit = "unified"
    /\ \E s \in {unified_anim_render(un, disp, now)} :
        /\ un' = s.c
        /\ disp' = s.disp
        /\ h' = OnRender(h, un, s)
    /\ UNCHANGED <<qt, qw, ts, rgb, unit, now, elapsed, a, tog, lt, w, os, ob, br>>

TrigAdvance ==
    /\ unit \in TrigUnits
    /\ Advance(TickSteps, {0, 40}, MaxElapsedTrig)
    /\ h' = [h EXCEPT !.op = "advance"]
    /\ UNCHANGED <<qt, qw, ts, rgb, unit, a, tog, lt, w, os, ob, br, un, disp>>

InitTrig == InitOneshot \/ InitOutback \/ InitBootrev \/ InitUnified

NextTrig ==
    \/ OneshotTrigger \/ OneshotRender
    \/ OutbackTrigger \/ OutbackRender
    \/ BootrevTrigger \/ BootrevRender
    \/ UnifiedTrigger \/ UnifiedRender
    \/ TrigAdvance

SpecTrig == InitTrig /\ [][NextTrig]_vars


(***************************************************************************)
(* Entry points handed a null or zero-length sequence: the animator, the   *)
(* triggered controllers (whose init draws seq from 0 .. MaxCount) and a   *)
(* toggle_anim_t constructed over an empty sequence.  toggle_draw_steady   *)
(* has no check of the sequence: it reads frames[count - 1] or frames[0],  *)
(* which for count = 0 is a read outside the sequence (drawn as index -1   *)
(* or 0 of a sequence that has no frame).                                  *)
(***************************************************************************)
InitToggleEmpty ==
    /\ unit = "toggle"
    /\ now = U32(0)
    /\ elapsed = 0
    /\ qt = ZeroQpToggle /\ qw = ZeroQpWidget /\ ts = ZeroTypingStats /\ rgb = ZeroRgbActivity
    /\ os = ZeroOneshot /\ ob = ZeroOutback /\ br = ZeroBootrev /\ un = ZeroUnified
    /\ a = ZeroAnimator
    /\ lt = ZeroTransition
    /\ w = ZeroWidget
    /\ \E initial_on \in BOOLEAN :
        /\ tog = toggle_anim_init(0, initial_on)
        /\ disp = toggle_draw_steady(tog, initial_on)
        /\ h = [op |-> "init", want |-> initial_on, pre |-> tog.phase,
                scen |-> "none", cancelIdx |-> 0, dueC |-> 0, orig |-> -1, amd |-> -1]

InitEmpty == InitToggleEmpty \/ InitAnim \/ InitTrig

NextEmpty == NextToggle \/ NextAnim \/ NextTrig

SpecEmpty == InitEmpty /\ [][NextEmpty]_vars

\* C12 as stated: handed a null or zero-length sequence, animator_start
\* leaves the animator inactive, the one-shot, out-and-back, boot-reverse
\* and toggle controllers are always in an idle phase, and no frame of the
\* missing sequence is ever read (nothing is drawn).
C12_EmptySequenceDegrades ==
    /\ (unit = "anim" /\ h.op = "start" /\ h.n = 0) => ~a.active
    /\ (unit = "oneshot" /\ os.seq = 0) => (os.phase = ONESHOT_IDLE /\ disp = NoFrame)
    /\ (unit = "outback" /\ ob.seq = 0) => (ob.phase = OUTBACK_IDLE /\ disp = NoFrame)
    /\ (unit = "bootrev" /\ br.seq = 0) => (br.phase = BOOTREV_IDLE /\ disp = NoFrame)
    /\ (unit = "toggle" /\ tog.seq = 0) =>
           (tog.phase \in {TOG_IDLE_OFF, TOG_IDLE_ON} /\ disp = NoFrame)

\* C13 as stated: in every reachable state of a widget, a tick whose query
\* result is outside [0, state_count) (state_count itself or 0xFF) starts
\* no transition when idle and, when a transition is in flight and the tick
\* neither finishes its leg nor is a watchdog reset, leaves dst, pending and
\* the animator's direction as they were.
C13_OutOfRangeIsNoChange ==
    (unit = "widget") =>
        \A q \in {NumStates, NO_PENDING}, d \in TickSteps :
            LET s == widget_tick(w, q, disp, U32Add(now, d))
            IN  /\ (w.phase = TR_IDLE) => (s.w.phase = TR_IDLE /\ s.w.src = w.src)
                /\ (w.phase # TR_IDLE /\ ~s.forced /\ s.w.phase = w.phase /\ s.w.src = w.src) =>
                       /\ s.w.dst = w.dst
                       /\ s.w.pending = w.pending
                       /\ s.w.anim.dir = w.anim.dir

\* C14 as stated: a trigger received while the boot animation or an earlier
\* triggered animation is still running changes nothing in the controller
\* (phase, animator index, direction, deadline).
C14_TriggerOnlyWhenIdle ==
    [][ /\ (unit = "oneshot" /\ h'.op = "trigger" /\ os.phase # ONESHOT_IDLE) => os' = os
        /\ (unit = "outback" /\ h'.op = "trigger" /\ ob.phase # OUTBACK_IDLE) => ob' = ob
        /\ (unit = "bootrev" /\ h'.op = "trigger" /\ br.phase # BOOTREV_IDLE) => br' = br
      ]_vars


\* One render call of an out-and-back controller, from struct c to c2 with
\* return value ret and animator result r; out, back and idle are the
\* controller's names for the outward leg, the return leg and idle.
OutbackRenderStep(c, c2, ret, r, t, out, back, idle) ==
    /\ (c.phase = out /\ r = ANIM_DONE_AT_END) =>
           /\ c2.phase = back
           /\ c2.anim = [count |-> c.seq, dir |-> -1, idx |-> c.seq - 1, active |-> TRUE,
                         next_ms |-> U32Add(t, ANIM_FRAME_MS)]
           /\ ~ret
    /\ (c.phase = out /\ r # ANIM_DONE_AT_END) => (c2.phase = out /\ c2.anim.active /\ ~ret)
    /\ (c.phase = back) =>
           /\ ret <=> (r = ANIM_DONE_AT_START)
           /\ ret => (c2.phase = idle /\ ~c2.anim.active /\ c2.anim.idx = 0)
           /\ ~ret => (c2.phase = back /\ c2.anim.active /\ c2.anim.dir = -1)
    /\ (c.phase = idle) => (~ret /\ c2 = c)

\* C15: in outback_anim_t and in the unified controller with behavior
\* ANIM_OUTBACK, the render call in which the outward (forward) leg of a
\* triggered cycle reports its end restarts the same sequence backward from
\* the last frame at once and returns false; render returns true in the
\* return leg exactly on the call in which it reports the start boundary
\* (the controller is idle afterwards), and false in every other call of a
\* triggered cycle and when idle.
C15_OutbackCompletion ==
    [][ /\ (unit = "outback" /\ h'.op = "render") =>
               OutbackRenderStep(ob, ob', h'.ret, h'.r, now,
                                 OUTBACK_OUT, OUTBACK_BACK, OUTBACK_IDLE)
        /\ (unit = "unified" /\ un.behavior = ANIM_OUTBACK /\ h'.op = "render") =>
               OutbackRenderStep(un, un', h'.ret, h'.r, now,
                                 PHASE_FORWARD, PHASE_REVERSE, PHASE_IDLE)
      ]_vars

\* C15 witness: the return leg of a triggered cycle over at least three
\* frames has just reached the start: render returned true, controller idle.
C15_Witness ==
    /\ unit = "outback" /\ h.op = "render" /\ h.pre = OUTBACK_BACK /\ h.ret
    /\ h.r = ANIM_DONE_AT_START /\ ob.phase = OUTBACK_IDLE /\ ob.seq >= 3


\* C16 (as amended): an out-and-back controller initialised with a boot
\* animation plays only the forward leg (active, direction +1, straight
\* from OUTBACK_BOOT to OUTBACK_IDLE on the render that reports the end,
\* which returns true) and then settles at the configured steady frame:
\* every render that leaves it idle draws the last frame of the sequence if
\* steady_at_end is set and the first frame otherwise.
C16_OutbackBoot ==
    [][ (unit = "outback" /\ h.boot /\ h'.op = "render") =>
            /\ (ob.phase = OUTBACK_BOOT) =>
                   /\ ob.anim.active /\ ob.anim.dir = 1
                   /\ ob'.phase = (IF h'.r = ANIM_DONE_AT_END THEN OUTBACK_IDLE ELSE OUTBACK_BOOT)
                   /\ h'.ret <=> (h'.r = ANIM_DONE_AT_END)
            /\ (ob'.phase = OUTBACK_IDLE) =>
                   disp' = [seq |-> 0, idx |-> IF ob.steady_at_end THEN ob.seq - 1 ELSE 0]
      ]_vars

\* C16 witness: the boot animation of a controller with at least two frames
\* and steady_at_end = false has just finished; the first frame is drawn.
C16_Witness ==
    /\ unit = "outback" /\ h.boot /\ h.op = "render" /\ h.pre = OUTBACK_BOOT
    /\ ob.phase = OUTBACK_IDLE /\ ~ob.steady_at_end /\ ob.seq >= 2
    /\ disp = [seq |-> 0, idx |-> 0]

\* C16 as originally stated: every render that leaves a controller
\* initialised with a boot animation idle draws the last frame.
C16_Original ==
    [][ (unit = "outback" /\ h.boot /\ h'.op = "render" /\ ob'.phase = OUTBACK_IDLE) =>
            disp' = [seq |-> 0, idx |-> ob.seq - 1]
      ]_vars


\* The animator as animator_start leaves it for a sequence of n frames.
Started(n, forward, t) ==
    [count |-> n, dir |-> IF forward THEN 1 ELSE -1, idx |-> IF forward THEN 0 ELSE n - 1,
     active |-> TRUE, next_ms |-> U32Add(t, ANIM_FRAME_MS)]

\* One trigger or render call (op) of a boot-reverse controller, from struct
\* c to c2, with return value ret, animator result r and frame shown on the
\* display afterwards; out, back and idle are the controller's names for
\* the end->start leg, the start->end leg and idle.
BootrevStep(op, c, c2, ret, r, shown, t, out, back, idle) ==
    /\ (op = "trigger" /\ c.phase = idle /\ c.boot_done /\ c.seq # 0) =>
           (c2.phase = out /\ c2.anim = Started(c.seq, FALSE, t))
    /\ (op = "render" /\ c.phase = out) =>
           IF r = ANIM_DONE_AT_START
           THEN c2.phase = back /\ c2.anim = Started(c.seq, TRUE, t) /\ ~ret
           ELSE c2.phase = out /\ c2.anim.active /\ c2.anim.dir = -1 /\ ~ret
    /\ (op = "render" /\ c.phase = back) =>
           IF r = ANIM_DONE_AT_END
           THEN c2.phase = idle /\ ~c2.anim.active /\ c2.anim.idx = c.seq - 1 /\ ret
           ELSE c2.phase = back /\ c2.anim.active /\ c2.anim.dir = 1 /\ ~ret
    /\ (op = "render" /\ c2.phase = idle /\ c.seq # 0) =>
           shown = [seq |-> 0, idx |-> c.seq - 1]

\* C17: in bootrev_anim_t and in the unified controller with behavior
\* ANIM_BOOTREV, a trigger received idle after boot starts the sequence
\* backward from its last frame; the render in which that leg reports the
\* start boundary restarts it forward from the first frame at once; the
\* render in which the forward leg reports the end boundary returns to
\* idle; no other way leads from a triggered cycle to idle; and every render
\* that leaves the controller idle draws the last frame of the sequence.
C17_BootThenReverse ==
    [][ /\ (unit = "bootrev") =>
               BootrevStep(h'.op, br, br', h'.ret, h'.r, disp', now,
                           BOOTREV_OUT, BOOTREV_BACK, BOOTREV_IDLE)
        /\ (unit = "unified" /\ un.behavior = ANIM_BOOTREV) =>
               BootrevStep(h'.op, un, un', h'.ret, h'.r, disp', now,
                           PHASE_REVERSE, PHASE_FORWARD, PHASE_IDLE)
      ]_vars

\* C17 witness: after a boot animation, a triggered cycle over at least
\* three frames has just finished its start->end leg; the controller is
\* idle and the last frame is drawn.
C17_Witness ==
    /\ unit = "bootrev" /\ h.boot /\ h.op = "render" /\ h.pre = BOOTREV_BACK /\ h.ret
    /\ br.phase = BOOTREV_IDLE /\ br.seq >= 3 /\ disp = [seq |-> 0, idx |-> br.seq - 1]


\* C18: every call of oneshot_anim_render returns true exactly when it is
\* made during a boot or triggered play-through and the animator reports
\* the end boundary in that call; that call leaves the controller idle with
\* the animator stopped, every call made while idle returns false, and a
\* play-through ends (non-idle to idle) in no other way than by a render
\* that returns true.
C18_OneshotEdgeTriggered ==
    [][ (unit = "oneshot") =>
            /\ (h'.op = "render") =>
                   /\ h'.ret <=> (os.phase \in {ONESHOT_BOOT, ONESHOT_TRIGGERED}
                                    /\ h'.r = ANIM_DONE_AT_END)
                   /\ h'.ret => (os'.phase = ONESHOT_IDLE /\ ~os'.anim.active)
                   /\ (os.phase = ONESHOT_IDLE) => (~h'.ret /\ os' = os)
            /\ (os.phase # ONESHOT_IDLE /\ os'.phase = ONESHOT_IDLE) =>
                   (h'.op = "render" /\ h'.ret)
      ]_vars

\* C18 witness: after a boot play-through, a triggered play-through over at
\* least two frames has just completed: the render returned true and the
\* controller is idle again.
C18_Witness ==
    /\ unit = "oneshot" /\ h.boot /\ os.boot_done /\ h.op = "render" /\ h.ret
    /\ h.pre = ONESHOT_TRIGGERED /\ os.phase = ONESHOT_IDLE /\ os.seq >= 2


\* The animator an is running inside a sequence of n frames.
Driving(an, n) == an.active /\ an.count = n /\ an.idx \in 0..(n - 1)

\* C19: in every reachable state (that is, between API calls) of a toggle,
\* layer or widget controller whose sequences are all non-empty, the phase
\* is an animating one exactly when the embedded animator is active with
\* its index inside the sequence of the state being shown, and while idle
\* the animator is stopped and the frame on the display is the steady frame
\* of that state: the first frame (toggle off, reverse-entering widget
\* state) or the last frame (toggle on, layer, forward-entering widget
\* state) of its sequence.
C19_PhaseInvariant ==
    /\ (unit = "toggle" /\ tog.seq # 0) =>
           /\ (tog.phase \in {TOG_ENTERING, TOG_EXITING}) <=> Driving(tog.anim, tog.seq)
           /\ (tog.phase \in {TOG_IDLE_OFF, TOG_IDLE_ON}) =>
                  /\ ~tog.anim.active
                  /\ disp = [seq |-> 0, idx |-> IF tog.phase = TOG_IDLE_ON THEN tog.seq - 1 ELSE 0]
    /\ (unit = "layer" /\ \A i \in States : lt.seq_map[i] # 0) =>
           /\ (lt.phase \in {TR_EXIT, TR_ENTER}) <=> Driving(lt.anim, lt.seq_map[lt.src])
           /\ (lt.phase = TR_IDLE) =>
                  /\ ~lt.anim.active
                  /\ disp = [seq |-> lt.src, idx |-> lt.seq_map[lt.src] - 1]
    /\ (unit \in {"widget", "watchdog"} /\ \A i \in States : w.seq_map[i] # 0) =>
           /\ (w.phase \in {TR_EXIT, TR_ENTER}) <=> Driving(w.anim, w.seq_map[w.src])
           /\ (w.phase = TR_IDLE) =>
                  /\ ~w.anim.active
                  /\ disp = [seq |-> w.src,
                             idx |-> IF w.dirs[w.src] = ENTER_FWD THEN w.seq_map[w.src] - 1 ELSE 0]

\* C19 witness: a widget that has exited one state and entered another is
\* idle again, showing the new state's steady frame (one of several frames).
C19_Witness ==
    /\ unit = "widget" /\ w.phase = TR_IDLE /\ h.op = "tick" /\ h.fin /\ h.entered
    /\ w.seq_map[w.src] >= 2 /\ ~w.anim.active
    /\ disp = draw_state_steady(w, w.src)


(***************************************************************************)
(* Unit "clear": clear_rect on a display whose pixels are all lit.  disp   *)
(* is the set of lit pixels <<x, y>>; h holds the arguments of the call    *)
(* and whether it has been made.                                           *)
(***************************************************************************)
\* Display size of the build (QMK's 128x32 default).
OLED_DISPLAY_WIDTH == 128

OLED_DISPLAY_HEIGHT == 32

AllPixels == (0 .. OLED_DISPLAY_WIDTH - 1) \X (0 .. OLED_DISPLAY_HEIGHT - 1)

\* oled_write_pixel(x, y, false) on the lit set: off-display writes are ignored.
oled_write_pixel_off(lit, pixels) == lit \ pixels

\* clear_rect: the set of lit pixels after the call.
clear_rect(lit, x_px, y_px, ww, hh) ==
    IF ww = 0 \/ hh = 0 THEN lit
    ELSE IF x_px >= OLED_DISPLAY_WIDTH \/ y_px >= OLED_DISPLAY_HEIGHT THEN lit
    ELSE LET x_sum == (x_px + ww) % Uint8
             y_sum == (y_px + hh) % Uint8
             x_end == IF x_sum > OLED_DISPLAY_WIDTH THEN OLED_DISPLAY_WIDTH ELSE x_sum
             y_end == IF y_sum > OLED_DISPLAY_HEIGHT THEN OLED_DISPLAY_HEIGHT ELSE y_sum
         IN  oled_write_pixel_off(lit, { x \in 0 .. Uint8 - 1 : x_px <= x /\ x < x_end }
                                         \X { y \in 0 .. Uint8 - 1 : y_px <= y /\ y < y_end })

\* Arguments tried: on and off the display, sums below, at and beyond 255.
ClearX == {0, 1, 100, 127, 128, 200, 255}

ClearW == {0, 1, 28, 128, 156, 200, 255}

ClearY == {0, 16, 31, 32, 255}

ClearH == {0, 1, 16, 32, 240, 255}

InitClear ==
    /\ unit = "clear"
    /\ now = U32(0)
    /\ elapsed = 0
    /\ qt = ZeroQpToggle /\ qw = ZeroQpWidget /\ ts = ZeroTypingStats /\ rgb = ZeroRgbActivity
    /\ os = ZeroOneshot /\ ob = ZeroOutback /\ br = ZeroBootrev /\ un = ZeroUnified
    /\ a = ZeroAnimator
    /\ tog = ZeroToggle
    /\ lt = ZeroTransition
    /\ w = ZeroWidget
    /\ disp = AllPixels
    /\ \E x_px \in ClearX, y_px \in ClearY, cw \in ClearW, ch \in ClearH :
        h = [op |-> "args", x_px |-> x_px, y_px |-> y_px, w |-> cw, h |-> ch]

ClearRect ==
    /\ unit = "clear"
    /\ h.op = "args"
    /\ disp' = clear_rect(disp, h.x_px, h.y_px, h.w, h.h)
    /\ h' = [h EXCEPT !.op = "clear_rect"]
    /\ UNCHANGED <<qt, qw, ts, rgb, os, ob, br, un, unit, now, elapsed, a, tog, lt, w>>

NextClear == ClearRect

SpecClear == InitClear /\ [][NextClear]_vars

\* The pixels of the rectangle [x, x+w) x [y, y+h) that lie on the display.
RectOnDisplay(x_px, y_px, cw, ch) ==
    { p \in AllPixels : /\ x_px <= p[1] /\ p[1] < x_px + cw
                        /\ y_px <= p[2] /\ p[2] < y_px + ch }

\* C20 as stated: after clear_rect(x, y, w, h) on a fully lit display, the
\* pixels that are off are exactly the pixels of [x, x+w) x [y, y+h) that
\* lie on the display, for the 8-bit arguments tried, x+w and y+h beyond
\* 255 included.
C20_ClearRectClips ==
    (unit = "clear" /\ h.op = "clear_rect") =>
        disp = AllPixels \ RectOnDisplay(h.x_px, h.y_px, h.w, h.h)


(***************************************************************************)
(* Unit "anim" with the millisecond counter starting either at 0 or        *)
(* WrapLead ms before it wraps from 2^32 - 1 to 0.                         *)
(***************************************************************************)
WrapLead == 200

InitAnimWrap ==
    /\ unit = "anim"
    /\ now \in {U32(0), U32Sub(U32(0), U32(WrapLead))}
    /\ elapsed = 0
    /\ qt = ZeroQpToggle /\ qw = ZeroQpWidget /\ ts = ZeroTypingStats /\ rgb = ZeroRgbActivity
    /\ os = ZeroOneshot /\ ob = ZeroOutback /\ br = ZeroBootrev /\ un = ZeroUnified
    /\ a = ZeroAnimator
    /\ tog = ZeroToggle
    /\ lt = ZeroTransition
    /\ w = ZeroWidget
    /\ disp = NoFrame
    /\ h = [op |-> "init", adv |-> FALSE, res |-> "none", n |-> 0, fwd |-> TRUE,
            startAt |-> now, due |-> 0, clean |-> FALSE,
            revK |-> -1, revDir |-> 0, sinceRev |-> 0]

SpecAnimWrap == InitAnimWrap /\ [][NextAnim]_vars

\* A timestamp near the wrap as a position on the unwrapped time line,
\* relative to the instant the counter reads 0.
Rel(p) == IF p[1] >= 32768 THEN (p[1] - Half) * Half + p[2] ELSE p[1] * Half + p[2]

\* C23: every animator_step call made while the animator is inactive, or at
\* a time that lies before its deadline on the unwrapped time line, returns
\* ANIM_RUNNING and leaves every field of the animator as it was, also when
\* the counter wraps between the call and the deadline; a call on an active
\* animator at or after the deadline does change it.
C23_StepNoOp ==
    [][ (unit = "anim" /\ h'.op = "step") =>
            IF ~a.active \/ a.count = 0 \/ Rel(now) < Rel(a.next_ms)
            THEN a' = a /\ ~h'.adv /\ animator_step(a, now).r = ANIM_RUNNING
            ELSE a' # a /\ h'.adv
      ]_vars

\* C23 witness: a step made just before the counter wraps, on an active
\* animator whose deadline lies after the wrap, has changed nothing.
C23_Witness ==
    /\ unit = "anim" /\ h.op = "step" /\ ~h.adv /\ a.active
    /\ now[1] = Half - 1 /\ a.next_ms[1] = 0


\* C24 (as amended): animator_reverse on an active animator flips the
\* direction, keeps the frame index and re-arms the deadline to one frame
\* interval after the time of the call, whatever the deadline was before;
\* on an inactive animator it changes nothing.
C24_ReverseRearmsDeadline ==
    [][ (unit = "anim" /\ h'.op = "reverse") =>
            IF a.active /\ a.count # 0
            THEN a' = [a EXCEPT !.dir = -a.dir, !.next_ms = U32Add(now, ANIM_FRAME_MS)]
            ELSE a' = a
      ]_vars

\* C24 witness: an animator started at 0 ms with deadline 80 ms has been
\* reversed at 40 ms before any step: its deadline is now 120 ms.
C24_Witness ==
    /\ unit = "anim" /\ h.op = "reverse" /\ a.active /\ h.revK >= 0
    /\ h.startAt = U32(0) /\ h.due = 0 /\ now = U32(40)
    /\ a.next_ms = U32(120)

\* C24 as stated: the deadline is the same after animator_reverse as before.
C24_Original ==
    [][ (unit = "anim" /\ h'.op = "reverse") => a'.next_ms = a.next_ms ]_vars


\* C28 as stated: whenever layer_tr_render has left a layer_transition_t in
\* TR_IDLE, pending is 0xFF.
C28_NoPendingAcrossIdle ==
    (unit = "layer" /\ h.op = "render" /\ lt.phase = TR_IDLE) => lt.pending = NO_PENDING


\* C29 as stated: in every reachable state of a layer_transition_t and for
\* every desired value, calling layer_tr_request twice in a row with that
\* value and the same timestamp leaves phase, src, dst, pending and the
\* animator's index and direction as one call does.
C29_RequestIdempotent ==
    (unit = "layer") =>
        \A desired \in Requests :
            LET once  == layer_tr_request(lt, desired, now)
                twice == layer_tr_request(once, desired, now)
            IN  /\ twice.phase = once.phase
                /\ twice.src = once.src
                /\ twice.dst = once.dst
                /\ twice.pending = once.pending
                /\ twice.anim.idx = once.anim.idx
                /\ twice.anim.dir = once.anim.dir


\* C30 as stated: in every reachable state of a widget, a tick (40 or 80 ms
\* later, polling any valid state) that takes the widget from TR_IDLE or
\* TR_ENTER into TR_EXIT leaves dst equal to the value polled in that tick
\* and different from src.
C30_ExitTowardPolledValue ==
    (unit = "widget") =>
        \A q \in States, d \in TickSteps :
            LET s == widget_tick(w, q, disp, U32Add(now, d))
            IN  (w.phase # TR_EXIT /\ s.w.phase = TR_EXIT) =>
                    (s.w.dst = q /\ s.w.dst # s.w.src)


\* C22 as stated: in every reachable state of a unified controller that is
\* not playing its boot animation, boot_done is true (the boot animation
\* has finished or none was started), for every behaviour; and a trigger
\* received by an idle ANIM_ONESHOT controller with a sequence starts a
\* forward play-through.
C22_BootDoneAfterBoot ==
    (unit = "unified") =>
        /\ (un.phase # PHASE_BOOT) => un.boot_done
        /\ (un.behavior = ANIM_ONESHOT /\ un.phase = PHASE_IDLE /\ un.seq # 0) =>
               unified_anim_trigger(un, 0, now).phase = PHASE_FORWARD


\* C26 as stated: in every reachable state in which a widget is leaving an
\* ENTER_REV state toward another state (TR_EXIT, animator running 0 -> N-1),
\* a tick that keeps polling that destination and in which the animator
\* reports the far boundary (ANIM_DONE_AT_END) adopts dst as the new src and
\* starts its enter leg.
C26_ReverseEnterExit ==
    (unit = "widget" /\ w.phase = TR_EXIT /\ w.dirs[w.src] = ENTER_REV
                     /\ w.dst # w.src /\ w.anim.dir = 1) =>
        \A d \in TickSteps :
            LET s == widget_tick(w, w.dst, disp, U32Add(now, d))
            IN  (~s.forced /\ s.r = ANIM_DONE_AT_END) =>
                    (s.w.src = w.dst /\ s.w.phase = TR_ENTER)


(***************************************************************************)
(* Unit "watchdog" on a widget whose states all enter forward and have     *)
(* sequences of LongCount frames: one exit-then-enter takes                *)
(* 2 * LongCount frame intervals.                                          *)
(***************************************************************************)
LongCount == 12

InitLongWidget ==
    /\ unit = "watchdog"
    /\ now = U32(0)
    /\ elapsed = 0
    /\ qt = ZeroQpToggle /\ qw = ZeroQpWidget /\ ts = ZeroTypingStats /\ rgb = ZeroRgbActivity
    /\ os = ZeroOneshot /\ ob = ZeroOutback /\ br = ZeroBootrev /\ un = ZeroUnified
    /\ a = ZeroAnimator
    /\ tog = ZeroToggle
    /\ lt = ZeroTransition
    /\ \E blit \in WidgetBlits, initial_state \in States :
        /\ w = widget_init([s \in States |-> LongCount], [s \in States |-> ENTER_FWD],
                           blit, NumStates, initial_state, now)
        /\ disp = draw_state_steady(w, initial_state)
        /\ h = InitHistory(initial_state) @@
               [forced |-> FALSE, stuck |-> "no", cstage |-> "none", cS |-> 0, cX |-> 0,
                lastq |-> initial_state, changes |-> 0]

SpecLongWidget == InitLongWidget /\ [][NextWatchdog]_vars

\* C27 as stated: a widget with forward-entering states whose polled value
\* has changed at most once (so that its animator, ticked every 40 or 80 ms,
\* advances one frame per interval through one exit and one enter leg) is
\* never force-reset, and no tick performs a forced reset on a widget that
\* is idle.
C27_WatchdogOnlyWhenStuck ==
    (unit = "watchdog") =>
        /\ (h.changes <= 1) => ~h.forced
        /\ (w.phase = TR_IDLE) =>
               \A q \in PollValues, d \in TickSteps :
                   ~widget_tick(w, q, disp, U32Add(now, d)).forced


(***************************************************************************)
(* Unit "watchdog" ticked for ever at a regular interval (40 or 80 ms,     *)
(* chosen at the start and kept in h.step) up to the horizon               *)
(* MaxElapsedWatchdog; the polled value may change, at most MaxPollChanges *)
(* times, during the first ChangeWindow ms and keeps its value from then   *)
(* on.                                                                     *)
(***************************************************************************)
ChangeWindow == 240

InitRegular ==
    /\ unit = "watchdog"
    /\ now = U32(0)
    /\ elapsed = 0
    /\ qt = ZeroQpToggle /\ qw = ZeroQpWidget /\ ts = ZeroTypingStats /\ rgb = ZeroRgbActivity
    /\ os = ZeroOneshot /\ ob = ZeroOutback /\ br = ZeroBootrev /\ un = ZeroUnified
    /\ a = ZeroAnimator
    /\ tog = ZeroToggle
    /\ lt = ZeroTransition
    /\ \E seq_map \in SeqMaps, dirs \in DirMaps, blit \in WidgetBlits,
          initial_state \in States, step \in TickSteps :
        /\ w = widget_init(seq_map, dirs, blit, NumStates, initial_state, now)
        /\ disp = draw_state_steady(w, initial_state)
        /\ h = InitHistory(initial_state) @@
               [forced |-> FALSE, stuck |-> "no", cstage |-> "none", cS |-> 0, cX |-> 0,
                lastq |-> initial_state, changes |-> 0, step |-> step]

RegularTick ==
    /\ unit = "watchdog"
    /\ \E q \in PollValues :
        /\ elapsed + h.step <= MaxElapsedWatchdog
        /\ (q # h.lastq) => (elapsed + h.step <= ChangeWindow)
        /\ h.changes + (IF q = h.lastq THEN 0 ELSE 1) <= MaxPollChanges
        /\ elapsed' = elapsed + h.step
        /\ now' = U32Add(now, h.step)
        /\ \E s \in {widget_tick(w, q, disp, now')} :
            /\ w' = s.w
            /\ disp' = s.disp
            /\ h' = WatchdogHistory(h, w, q, s)
    /\ UNCHANGED <<qt, qw, ts, rgb, os, ob, br, un, unit, a, tog, lt>>

NextRegular == RegularTick

\* The time of the next call, as far as the horizon allows one (a tick that
\* polls the value polled last is possible whenever this is).
RegularClock ==
    /\ unit = "watchdog"
    /\ elapsed + h.step <= MaxElapsedWatchdog
    /\ elapsed' = elapsed + h.step

\* The host calls widget_tick on every OLED frame: ticks keep coming.
SpecRegular == InitRegular /\ [][NextRegular]_vars /\ WF_elapsed(RegularClock)

\* C25: when widget_tick is called at a regular interval and the polled
\* value, after its changes, stays at a valid state X, the widget eventually
\* is in TR_IDLE with src = X and stays so.
C25_Convergence ==
    <>[]((unit = "watchdog" /\ h.lastq \in States) => (w.phase = TR_IDLE /\ w.src = h.lastq))

\* C25 witness: after two changes of the polled value, one of them during a
\* transition, the widget is idle at the last polled state, which is not
\* the state it started in.
C25_Witness ==
    /\ unit = "watchdog" /\ h.changes = 2 /\ h.lastq \in States /\ elapsed > ChangeWindow
    /\ ~h.forced /\ w.phase = TR_IDLE /\ w.src = h.lastq /\ w.seq_map[w.src] >= 2


(***************************************************************************)
(* Unit "blit": draw_slice_px, as the additive drawing paths call it       *)
(* (animator_step_and_draw_blend and the steady-frame draws with           *)
(* use_or_blend: no clear_rect first), on one display column.  A byte is   *)
(* the set of its one-bits (bit 0 = top pixel of the page); disp maps each *)
(* page to its byte; a slice is [data, pages, height_px] with data the     *)
(* column's byte for each page.  h holds the arguments, the column before  *)
(* the call and whether the call has been made.                            *)
(***************************************************************************)
Bits == 0 .. 7

DisplayPages == 0 .. (OLED_DISPLAY_HEIGHT \div 8) - 1

\* (uint8_t)(b << k) and (uint8_t)(b >> k)
ShiftLeft(b, k) == { i + k : i \in b } \cap Bits

ShiftRight(b, k) == { i - k : i \in b } \cap Bits

\* (uint8_t)((1 << n) - 1)
LowMask(n) == { i \in Bits : i < n }

slice_height_px(sl) == IF sl.height_px # 0 THEN sl.height_px ELSE (sl.pages * 8) % Uint8

\* The source mask of page p: the rows of the last page that belong to a
\* slice of arbitrary height, all rows otherwise.
SrcMask(sl, p) ==
    IF p = sl.pages - 1 /\ sl.height_px > 0
    THEN LowMask((slice_height_px(sl) - p * 8) % Uint8)
    ELSE Bits

\* Fast path, page p of the slice.
DrawAligned(col, sl, start_pg, p) ==
    LET dst_pg == (start_pg + p) % Uint8
    IN  IF p = sl.pages - 1 /\ sl.height_px > 0
        THEN [col EXCEPT ![dst_pg] = (@ \cap (Bits \ SrcMask(sl, p)))
                                       \cup (sl.data[p + 1] \cap SrcMask(sl, p))]
        ELSE [col EXCEPT ![dst_pg] = sl.data[p + 1]]

\* Unaligned path, page p of the slice: lower page, then upper page.
DrawUnaligned(col, sl, start_pg, y_off, p) ==
    LET dst_pg_lo   == (start_pg + p) % Uint8
        dst_pg_hi   == (dst_pg_lo + 1) % Uint8
        carry_shift == 8 - y_off
        lo_src_mask == ShiftLeft(SrcMask(sl, p), y_off)
        hi_src_mask == ShiftRight(SrcMask(sl, p), carry_shift)
        col1 == IF dst_pg_lo \in DisplayPages
                THEN [col EXCEPT ![dst_pg_lo] =
                         (@ \cap (Bits \ lo_src_mask))
                           \cup (ShiftLeft(sl.data[p + 1], y_off) \cap lo_src_mask)]
                ELSE col
    IN  IF dst_pg_hi \in DisplayPages
        THEN [col1 EXCEPT ![dst_pg_hi] =
                 (@ \cap (Bits \ hi_src_mask))
                   \cup (ShiftRight(sl.data[p + 1], carry_shift) \cap hi_src_mask)]
        ELSE col1

\* The page loop over the slice's pages lo .. hi-1, in order, split in
\* halves so that tall slices are evaluated without deep nesting.
RECURSIVE DrawRange(_, _, _, _, _, _)
DrawRange(col, sl, start_pg, y_off, lo, hi) ==
    IF lo >= hi THEN col
    ELSE IF hi = lo + 1
    THEN (IF y_off = 0 THEN DrawAligned(col, sl, start_pg, lo)
          ELSE DrawUnaligned(col, sl, start_pg, y_off, lo))
    ELSE LET mid   == (lo + hi) \div 2
             first == DrawRange(col, sl, start_pg, y_off, lo, mid)
         IN  \* the first half is computed before the second half starts
             IF DOMAIN first = DisplayPages
             THEN DrawRange(first, sl, start_pg, y_off, mid, hi)
             ELSE first

\* The aligned loop breaks at the first page below the display; the
\* unaligned loop visits every page of the slice.
DrawPages(col, sl, start_pg, y_off, p) ==
    LET stop == IF y_off = 0
                THEN (IF \E q \in p .. sl.pages - 1 : (start_pg + q) % Uint8 \notin DisplayPages
                      THEN CHOOSE q \in p .. sl.pages - 1 :
                             /\ (start_pg + q) % Uint8 \notin DisplayPages
                             /\ \A r \in p .. q - 1 : (start_pg + r) % Uint8 \in DisplayPages
                      ELSE sl.pages)
                ELSE sl.pages
    IN  DrawRange(col, sl, start_pg, y_off, p, stop)

\* draw_slice_px at a column on the display.
draw_slice_px(col, sl, y_px) ==
    IF sl.pages = 0 THEN col
    ELSE IF y_px >= OLED_DISPLAY_HEIGHT THEN col
    ELSE DrawPages(col, sl, y_px \div 8, y_px % 8, 0)

\* Bytes, columns, slices and positions tried.
BlitBytes == { {}, {0, 2, 4, 6}, Bits }

BlitColumns == { [pg \in DisplayPages |-> b] : b \in BlitBytes }

BlitSlices ==
    { [data |-> <<b>>, pages |-> 1, height_px |-> hp] : b \in BlitBytes, hp \in {0, 5} }
    \cup { [data |-> <<b, c>>, pages |-> 2, height_px |-> hp] :
             b \in BlitBytes, c \in BlitBytes, hp \in {0, 13} }

BlitYs == {0, 3, 8, 20, 24, 29, 31}

InitBlit ==
    /\ unit = "blit"
    /\ now = U32(0)
    /\ elapsed = 0
    /\ qt = ZeroQpToggle /\ qw = ZeroQpWidget /\ ts = ZeroTypingStats /\ rgb = ZeroRgbActivity
    /\ os = ZeroOneshot /\ ob = ZeroOutback /\ br = ZeroBootrev /\ un = ZeroUnified
    /\ a = ZeroAnimator
    /\ tog = ZeroToggle
    /\ lt = ZeroTransition
    /\ w = ZeroWidget
    /\ disp \in BlitColumns
    /\ \E sl \in BlitSlices, y_px \in BlitYs :
        h = [op |-> "args", slice |-> sl, y_px |-> y_px, before |-> disp]

DrawAdditive ==
    /\ unit = "blit"
    /\ h.op = "args"
    /\ disp' = draw_slice_px(disp, h.slice, h.y_px)
    /\ h' = [h EXCEPT !.op = "draw"]
    /\ UNCHANGED <<qt, qw, ts, rgb, os, ob, br, un, unit, now, elapsed, a, tog, lt, w>>

NextBlit == DrawAdditive

SpecBlit == InitBlit /\ [][NextBlit]_vars

\* Whether the slice drawn at y_px has a lit pixel at display row `row`.
FramePixel(sl, y_px, row) ==
    LET k == row - y_px
    IN  /\ k >= 0 /\ k < slice_height_px(sl)
        /\ (k % 8) \in sl.data[(k \div 8) + 1]

\* C21 as stated: after a frame has been drawn without a preceding clear, at
\* a page-aligned or an unaligned vertical position, every pixel of the
\* display is on exactly if it was on before or the frame has it on.
C21_AdditiveIsOr ==
    (unit = "blit" /\ h.op = "draw") =>
        \A pg \in DisplayPages, b \in Bits :
            (b \in disp[pg]) <=> (b \in h.before[pg] \/ FramePixel(h.slice, h.y_px, pg * 8 + b))


(***************************************************************************)
(* Animator pacing and index safety (unit "anim").                         *)
(***************************************************************************)
\* C31 (as amended): a call of animator_step moves the frame index by at
\* most one, and the advances follow the deadline schedule start + 80,
\* start + 160, ...: the k-th advancing step since animator_start is made
\* no earlier than k * ANIM_FRAME_MS after it.  A late caller catches up one
\* frame per call, so two advances may be made at the same time.
C31_PacedBySchedule ==
    [][(unit = "anim" /\ h'.op = "step") =>
          /\ a'.idx - a.idx \in {-1, 0, 1}
          /\ (h'.clean => h'.due * ANIM_FRAME_MS <= U32Sub(now', h'.startAt)[2])]_vars

\* A step has just advanced although it came a whole interval late: the
\* next deadline has passed already.
C31_Witness ==
    /\ unit = "anim" /\ h.op = "step" /\ h.adv /\ h.clean
    /\ a.active /\ h.due >= 1
    /\ ~I32Negative(U32Sub(now, a.next_ms))

\* C31 as stated: after a step that advanced the index, no step made less
\* than ANIM_FRAME_MS later advances it again.
C31_Original ==
    (unit = "anim" /\ h.op = "step" /\ h.adv) =>
        \A d \in 0 .. ANIM_FRAME_MS - 1 :
            animator_step(a, U32Add(now, d)).a.idx = a.idx


\* The longest sequence a uint8_t count can describe.
MaxFrames == 255

\* animator_start with a one-frame or a longest sequence.
AnimStartWide ==
    /\ unit = "anim"
    /\ \E n \in {1, MaxFrames}, f \in BOOLEAN :
        /\ a' = animator_start(a, n, f, now)
        /\ h' = [op |-> "start", adv |-> FALSE, res |-> "none", n |-> n, fwd |-> f,
                 startAt |-> now, due |-> 0, clean |-> TRUE,
                 revK |-> -1, revDir |-> 0, sinceRev |-> 0]
    /\ UNCHANGED <<qt, qw, ts, rgb, os, ob, br, un, unit, now, elapsed, tog, lt, w, disp>>

NextAnimWide == AnimStartWide \/ AnimReverse \/ AnimStep \/ AnimAdvance

SpecAnimWide == InitAnim /\ [][NextAnimWide]_vars

\* C32: whatever animator_start, animator_reverse and animator_step calls
\* are made on a sequence of N frames (1 <= N <= 255), the index stays in
\* 0 .. N-1 and the direction is +1 or -1; a due step backward from index 0
\* leaves the index at 0 and a due step forward from index N-1 leaves it at
\* N-1, and either ends the animation.
C32_IndexSafe ==
    [][(unit = "anim" /\ a'.count > 0) =>
          /\ a'.idx \in 0 .. a'.count - 1
          /\ a'.dir \in {1, -1}
          /\ (h'.op = "step" /\ h'.adv /\ a.idx = 0 /\ a.dir = -1)
                => (a'.idx = 0 /\ ~a'.active)
          /\ (h'.op = "step" /\ h'.adv /\ a.idx = a.count - 1 /\ a.dir = 1)
                => (a'.idx = a.count - 1 /\ ~a'.active)]_vars

\* A longest sequence has been stepped forward across its last frame.
C32_Witness ==
    /\ unit = "anim" /\ h.op = "step" /\ h.adv
    /\ a.count = MaxFrames /\ a.dir = 1 /\ a.idx = MaxFrames - 1 /\ ~a.active


(***************************************************************************)
(* Unit "toggle" under a regular render loop: toggle_anim_render is called *)
(* every h.step ms, toggle_anim_set calls arrive at any point of the first *)
(* ChangeWindow ms.  History h: op, want = the last call and the argument  *)
(* of the last set; cancelled = a set has reversed a running animation.    *)
(***************************************************************************)
InitToggleLoop ==
    /\ unit = "toggle"
    /\ now = U32(0)
    /\ elapsed = 0
    /\ qt = ZeroQpToggle /\ qw = ZeroQpWidget /\ ts = ZeroTypingStats /\ rgb = ZeroRgbActivity
    /\ os = ZeroOneshot /\ ob = ZeroOutback /\ br = ZeroBootrev /\ un = ZeroUnified
    /\ a = ZeroAnimator
    /\ lt = ZeroTransition
    /\ w = ZeroWidget
    /\ \E seq \in 1..MaxCount, initial_on \in BOOLEAN, step \in TickSteps :
        /\ tog = toggle_anim_init(seq, initial_on)
        /\ disp = toggle_draw_steady(tog, initial_on)
        /\ h = [op |-> "init", want |-> initial_on, step |-> step, cancelled |-> FALSE]

ToggleLoopSet ==
    /\ unit = "toggle"
    /\ elapsed <= ChangeWindow
    /\ \E want_on \in BOOLEAN :
        /\ tog' = toggle_anim_set(tog, want_on, now)
        /\ h' = [h EXCEPT !.op = "set", !.want = want_on,
                          !.cancelled = @ \/ (tog.phase \in {TOG_ENTERING, TOG_EXITING}
                                               /\ tog'.phase # tog.phase)]
    /\ UNCHANGED <<qt, qw, ts, rgb, os, ob, br, un, unit, now, elapsed, a, lt, w, disp>>

ToggleLoopRender ==
    /\ unit = "toggle"
    /\ elapsed + h.step <= MaxElapsedToggle
    /\ elapsed' = elapsed + h.step
    /\ now' = U32Add(now, h.step)
    /\ LET s == toggle_anim_render_blend(tog, disp, now')
       IN  /\ tog' = s.tog
           /\ disp' = s.disp
    /\ h' = [h EXCEPT !.op = "render"]
    /\ UNCHANGED <<qt, qw, ts, rgb, os, ob, br, un, unit, a, lt, w>>

NextToggleLoop == ToggleLoopSet \/ ToggleLoopRender

\* The time of the next render, as far as the horizon allows one.
ToggleLoopClock ==
    /\ unit = "toggle"
    /\ elapsed + h.step <= MaxElapsedToggle
    /\ elapsed' = elapsed + h.step

\* The host renders on every OLED frame: renders keep coming.
SpecToggleLoop == InitToggleLoop /\ [][NextToggleLoop]_vars /\ WF_elapsed(ToggleLoopClock)

\* C33: with a non-empty sequence, after the last of any series of
\* toggle_anim_set calls (interleaved with renders in any way) has asked
\* for want, the renders that follow bring the controller to the idle phase
\* of want, with visible_on = want and the animator inactive, for good.
C33_ToggleConverges ==
    <>[](unit = "toggle" =>
            /\ tog.phase = (IF h.want THEN TOG_IDLE_ON ELSE TOG_IDLE_OFF)
            /\ tog.visible_on = h.want
            /\ ~tog.anim.active)

\* C33 witness: a set has reversed a running animation, and after the last
\* set the controller has come to rest in the idle phase asked for.
C33_Witness ==
    /\ unit = "toggle" /\ h.cancelled /\ elapsed > ChangeWindow /\ tog.seq >= 3
    /\ tog.phase = (IF h.want THEN TOG_IDLE_ON ELSE TOG_IDLE_OFF)
    /\ tog.visible_on = h.want /\ ~tog.anim.active


\* C34 as stated: a unified controller with TOGGLE behaviour and a non-empty
\* sequence that has settled idle (where renders only redraw the steady
\* frame) shows the state asked for by the last trigger, also when that
\* trigger came while a transition was animating.
C34_UnifiedToggleSettles ==
    (unit = "unified" /\ un.behavior = ANIM_TOGGLE /\ un.seq > 0 /\ un.phase = PHASE_IDLE)
        => un.visible_on = un.desired_on


(***************************************************************************)
(* Quantum Painter animation engine (qp_anim.c).  A qp_image_sequence_t is *)
(* the record [count, loop, frame_duration_ms]; the animator holds the     *)
(* fields of the sequence it is bound to (count = 0: no sequence bound).   *)
(* TIMER_DIFF_32 is QMK's timer.h macro, (uint32_t)((a) - (b)): its value  *)
(* is an unsigned 32-bit number, and the comparisons the code makes with   *)
(* it are comparisons of unsigned numbers.                                 *)
(***************************************************************************)
QP_ANIM_RUNNING       == "QP_ANIM_RUNNING"
QP_ANIM_DONE_AT_START == "QP_ANIM_DONE_AT_START"
QP_ANIM_DONE_AT_END   == "QP_ANIM_DONE_AT_END"

TIMER_DIFF_32(x, y) == U32Sub(x, y)

\* d < k for a uint32_t d and a constant k >= 0
U32Lt(d, k) == d[1] = 0 /\ d[2] < k

QpSequences ==
    {[count |-> n, loop |-> l, frame_duration_ms |-> d] :
        n \in 1..MaxCount, l \in BOOLEAN, d \in TickSteps}

update_next_timestamp(an, t) ==
    IF an.count = 0 THEN an
    ELSE [an EXCEPT !.next_ms = U32Add(t, an.frame_duration_ms)]

qp_animator_start(an, sequence, forward, t) ==
    IF sequence.count = 0 THEN an
    ELSE update_next_timestamp(
            [an EXCEPT !.count = sequence.count, !.loop = sequence.loop,
                       !.frame_duration_ms = sequence.frame_duration_ms,
                       !.dir = IF forward THEN 1 ELSE -1,
                       !.idx = IF forward THEN 0 ELSE sequence.count - 1,
                       !.active = TRUE], t)

qp_animator_stop(an) == [an EXCEPT !.active = FALSE, !.next_ms = <<0, 0>>]

qp_animator_is_active(an) == an.active /\ an.count > 0

qp_animator_step(an, t) ==
    IF an.count = 0 \/ ~an.active THEN [a |-> an, r |-> QP_ANIM_DONE_AT_START]
    ELSE IF U32Lt(TIMER_DIFF_32(t, an.next_ms), 0) THEN [a |-> an, r |-> QP_ANIM_RUNNING]
    ELSE LET new_idx == an.idx + an.dir
         IN  IF new_idx < 0 /\ ~an.loop
             THEN [a |-> [an EXCEPT !.idx = 0, !.active = FALSE], r |-> QP_ANIM_DONE_AT_START]
             ELSE IF new_idx >= an.count /\ ~an.loop
             THEN [a |-> [an EXCEPT !.idx = an.count - 1, !.active = FALSE],
                   r |-> QP_ANIM_DONE_AT_END]
             ELSE [a |-> update_next_timestamp(
                            [an EXCEPT !.idx = IF new_idx < 0 THEN an.count - 1
                                               ELSE IF new_idx >= an.count THEN 0
                                               ELSE new_idx], t),
                   r |-> QP_ANIM_RUNNING]

\* The frame on the device after qp_animator_step_and_draw.
qp_animator_step_and_draw(an, shown, t) ==
    LET s == qp_animator_step(an, t)
    IN  [a |-> s.a, r |-> s.r,
         disp |-> IF qp_animator_is_active(s.a) THEN [seq |-> 0, idx |-> s.a.idx] ELSE shown]

(***************************************************************************)
(* Quantum Painter toggle controller (qp_controllers.c).  seq is the       *)
(* controller's sequence; last_render_time is written and never read.      *)
(***************************************************************************)
qp_toggle_init(sequence, steady_at_end, initial_state) ==
    [seq |-> sequence, steady_at_end |-> steady_at_end, current_state |-> initial_state,
     target_state |-> initial_state, in_transition |-> FALSE, animator |-> ZeroQpAnimator]

qp_toggle_set(c, state, t) ==
    IF c.target_state = state THEN c
    ELSE [c EXCEPT !.target_state = state,
                   !.in_transition = TRUE,
                   !.animator = qp_animator_start(c.animator, c.seq,
                                                  state = c.steady_at_end, t)]

qp_toggle_render(c, shown, t) ==
    IF c.in_transition /\ qp_animator_is_active(c.animator)
    THEN LET s  == qp_animator_step_and_draw(c.animator, shown, t)
             c1 == [c EXCEPT !.animator = s.a]
         IN  [c |-> IF s.r # QP_ANIM_RUNNING
                    THEN [c1 EXCEPT !.current_state = c.target_state, !.in_transition = FALSE]
                    ELSE c1,
              disp |-> s.disp]
    ELSE [c |-> c,
          disp |-> IF c.animator.count = 0 THEN shown
                   ELSE [seq |-> 0,
                         idx |-> IF c.current_state = c.steady_at_end
                                 THEN c.animator.count - 1 ELSE 0]]

(***************************************************************************)
(* Unit "qptoggle": a qp_toggle_controller_t driven through set / render.  *)
(* History h: op = the last call.                                          *)
(***************************************************************************)
MaxElapsedQp == 400      \* injected time given to a Quantum Painter controller, ms

QpCommonInit ==
    /\ now = U32(0)
    /\ elapsed = 0
    /\ os = ZeroOneshot /\ ob = ZeroOutback /\ br = ZeroBootrev /\ un = ZeroUnified
    /\ a = ZeroAnimator
    /\ tog = ZeroToggle
    /\ lt = ZeroTransition
    /\ w = ZeroWidget
    /\ disp = NoFrame

InitQpToggle ==
    /\ unit = "qptoggle"
    /\ QpCommonInit
    /\ qw = ZeroQpWidget /\ ts = ZeroTypingStats /\ rgb = ZeroRgbActivity
    /\ \E sequence \in QpSequences, steady_at_end \in BOOLEAN, initial_state \in BOOLEAN :
        qt = qp_toggle_init(sequence, steady_at_end, initial_state)
    /\ h = [op |-> "init"]

QpToggleSet ==
    /\ unit = "qptoggle"
    /\ \E state \in BOOLEAN : qt' = qp_toggle_set(qt, state, now)
    /\ h' = [h EXCEPT !.op = "set"]
    /\ UNCHANGED <<unit, now, elapsed, a, tog, lt, w, os, ob, br, un, qw, ts, rgb, disp>>

QpToggleRender ==
    /\ unit = "qptoggle"
    /\ \E s \in {qp_toggle_render(qt, disp, now)} :
        /\ qt' = s.c
        /\ disp' = s.disp
    /\ h' = [h EXCEPT !.op = "render"]
    /\ UNCHANGED <<unit, now, elapsed, a, tog, lt, w, os, ob, br, un, qw, ts, rgb>>

QpToggleAdvance ==
    /\ unit = "qptoggle"
    /\ Advance(TickSteps, {0, 40}, MaxElapsedQp)
    /\ h' = [h EXCEPT !.op = "advance"]
    /\ UNCHANGED <<unit, a, tog, lt, w, os, ob, br, un, qt, qw, ts, rgb, disp>>

NextQpToggle == QpToggleSet \/ QpToggleRender \/ QpToggleAdvance

SpecQpToggle == InitQpToggle /\ [][NextQpToggle]_vars

\* C35 as stated: a qp_toggle_set for the opposite state while a transition
\* is animating keeps the animator's frame index and flips its direction.
C35_QpToggleCancelKeepsFrame ==
    [][(/\ unit = "qptoggle" /\ h'.op = "set"
        /\ qt.in_transition /\ qp_animator_is_active(qt.animator)
        /\ qt'.target_state # qt.target_state)
          => (/\ qt'.animator.idx = qt.animator.idx
              /\ qt'.animator.dir = -qt.animator.dir)]_vars


(***************************************************************************)
(* Quantum Painter declarative widget (qp_declarative.c).  The config is   *)
(* kept in the record: state_count, seq_map (the sequence of each state)   *)
(* and dirs (enter_forward of each state).  The query callback's return    *)
(* value is the parameter q of qp_widget_tick.  pending_state is written   *)
(* by init and never read.                                                 *)
(***************************************************************************)
QP_WIDGET_IDLE     == "QP_WIDGET_IDLE"
QP_WIDGET_EXITING  == "QP_WIDGET_EXITING"
QP_WIDGET_ENTERING == "QP_WIDGET_ENTERING"

QP_WIDGET_QUERY_INTERVAL_MS == 50
QP_WIDGET_STUCK_TIMEOUT_MS == 5000

qp_draw_steady_frame(wd, shown) ==
    IF wd.current_state >= wd.state_count THEN shown
    ELSE [seq |-> wd.current_state,
          idx |-> IF wd.dirs[wd.current_state]
                  THEN wd.seq_map[wd.current_state].count - 1 ELSE 0]

start_transition(wd, new_state, t) ==
    IF new_state >= wd.state_count THEN wd
    ELSE [wd EXCEPT !.target_state = new_state,
                    !.phase = QP_WIDGET_ENTERING,
                    !.last_state_change = t,
                    !.stuck_timeout = U32Add(t, QP_WIDGET_STUCK_TIMEOUT_MS),
                    !.animator = qp_animator_start(wd.animator, wd.seq_map[new_state],
                                                   wd.dirs[new_state], t)]

qp_widget_init(seq_map, dirs, state_count, initial_state, t) ==
    [initialized |-> TRUE, state_count |-> state_count, seq_map |-> seq_map, dirs |-> dirs,
     phase |-> QP_WIDGET_IDLE, current_state |-> initial_state,
     target_state |-> initial_state, last_query_time |-> t, last_state_change |-> t,
     stuck_timeout |-> <<0, 0>>, last_query_result |-> initial_state,
     animator |-> ZeroQpAnimator]

\* Whether this tick calls the query callback.
should_query(wd, t) ==
    ~U32Lt(TIMER_DIFF_32(t, wd.last_query_time), QP_WIDGET_QUERY_INTERVAL_MS)

\* qp_widget_tick up to the state machine: the desired state and the
\* bookkeeping of the query.
qp_widget_query(wd, q, t) ==
    IF should_query(wd, t)
    THEN LET desired_state == IF q >= wd.state_count THEN 0 ELSE q
         IN  [w |-> [wd EXCEPT !.last_query_time = t, !.last_query_result = desired_state],
              desired_state |-> desired_state]
    ELSE [w |-> wd, desired_state |-> wd.last_query_result]

\* The stuck check that ends the QP_WIDGET_ENTERING case.
qp_widget_stuck_check(wd, t) ==
    IF ~U32Lt(TIMER_DIFF_32(t, wd.stuck_timeout), 0)
    THEN [wd EXCEPT !.current_state = wd.target_state, !.phase = QP_WIDGET_IDLE,
                    !.animator = qp_animator_stop(wd.animator)]
    ELSE wd

qp_widget_tick(wd, q, shown, t) ==
    IF ~wd.initialized THEN [w |-> wd, disp |-> shown]
    ELSE
    LET qr == qp_widget_query(wd, q, t)
        w1 == qr.w
        desired_state == qr.desired_state
    IN  CASE w1.phase = QP_WIDGET_IDLE ->
                IF desired_state # w1.current_state
                THEN [w |-> start_transition(w1, desired_state, t), disp |-> shown]
                ELSE [w |-> w1, disp |-> qp_draw_steady_frame(w1, shown)]
          [] w1.phase = QP_WIDGET_ENTERING ->
                IF qp_animator_is_active(w1.animator)
                THEN LET s  == qp_animator_step_and_draw(w1.animator, shown, t)
                         w2 == [w1 EXCEPT !.animator = s.a]
                         w3 == IF s.r # QP_ANIM_RUNNING
                               THEN LET w4 == [w2 EXCEPT !.current_state = w2.target_state,
                                                         !.phase = QP_WIDGET_IDLE]
                                    IN  IF desired_state # w4.current_state
                                        THEN start_transition(w4, desired_state, t)
                                        ELSE w4
                               ELSE w2
                     IN  [w |-> qp_widget_stuck_check(w3, t),
                          disp |-> IF qp_animator_is_active(s.a)
                                   THEN [seq |-> w1.target_state, idx |-> s.a.idx]
                                   ELSE shown]
                ELSE [w |-> qp_widget_stuck_check(
                               [w1 EXCEPT !.current_state = w1.target_state,
                                          !.phase = QP_WIDGET_IDLE], t),
                      disp |-> shown]
          [] OTHER ->
                [w |-> [w1 EXCEPT !.phase = QP_WIDGET_IDLE], disp |-> shown]

(***************************************************************************)
(* Unit "qpwidget": a qp_widget_t driven through qp_widget_tick.  History  *)
(* h: op = the last call, q = what the query callback returned in the last *)
(* tick, queried = whether that tick called it.                            *)
(***************************************************************************)
QpSeqMaps ==
    { [s \in States |-> [count |-> 1 + ((c + s) % MaxCount), loop |-> FALSE,
                         frame_duration_ms |-> ANIM_FRAME_MS]] : c \in 0 .. MaxCount - 1 }

QpDirMaps == { [s \in States |-> TRUE], [s \in States |-> s # 0] }

InitQpWidget ==
    /\ unit = "qpwidget"
    /\ QpCommonInit
    /\ qt = ZeroQpToggle /\ ts = ZeroTypingStats /\ rgb = ZeroRgbActivity
    /\ \E seq_map \in QpSeqMaps, dirs \in QpDirMaps, initial_state \in States :
        qw = qp_widget_init(seq_map, dirs, NumStates, initial_state, now)
    /\ h = [op |-> "init", q |-> 0, queried |-> FALSE]

QpWidgetTick ==
    /\ unit = "qpwidget"
    /\ \E q \in PollValues :
        /\ \E s \in {qp_widget_tick(qw, q, disp, now)} :
            /\ qw' = s.w
            /\ disp' = s.disp
        /\ h' = [op |-> "tick", q |-> q, queried |-> should_query(qw, now)]
    /\ UNCHANGED <<unit, now, elapsed, a, tog, lt, w, os, ob, br, un, qt, ts, rgb>>

QpWidgetAdvance ==
    /\ unit = "qpwidget"
    /\ Advance(TickSteps, {0, 40}, MaxElapsedQp)
    /\ h' = [h EXCEPT !.op = "advance"]
    /\ UNCHANGED <<unit, a, tog, lt, w, os, ob, br, un, qt, qw, ts, rgb, disp>>

NextQpWidget == QpWidgetTick \/ QpWidgetAdvance

SpecQpWidget == InitQpWidget /\ [][NextQpWidget]_vars

\* C36 as stated: in a tick made less than QP_WIDGET_STUCK_TIMEOUT_MS after
\* start_transition, a QP_WIDGET_ENTERING transition whose animator is
\* active and has not reached its boundary is not force-completed: the
\* widget keeps its phase and target and the animator plays on.
C36_StuckOnlyAfterTimeout ==
    [][(/\ unit = "qpwidget" /\ h'.op = "tick"
        /\ qw.phase = QP_WIDGET_ENTERING /\ qp_animator_is_active(qw.animator)
        /\ U32Lt(TIMER_DIFF_32(now, qw.last_state_change), QP_WIDGET_STUCK_TIMEOUT_MS)
        /\ qp_animator_step(qw.animator, now).r = QP_ANIM_RUNNING)
          => (/\ qw'.phase = QP_WIDGET_ENTERING
              /\ qw'.current_state = qw.current_state
              /\ qw'.animator = qp_animator_step(qw.animator, now).a)]_vars

\* C37 as stated: an idle widget whose query callback returns a value of
\* state_count or more starts no transition and keeps current_state and
\* target_state.
C37_QpOutOfRangeIsNoChange ==
    [][(/\ unit = "qpwidget" /\ h'.op = "tick" /\ h'.queried
        /\ h'.q >= qw.state_count /\ qw.phase = QP_WIDGET_IDLE)
          => (/\ qw'.phase = QP_WIDGET_IDLE
              /\ qw'.current_state = qw.current_state
              /\ qw'.target_state = qw.target_state)]_vars


(***************************************************************************)
(* Unit "blit2d": draw_slice_px on the whole display.  disp maps each      *)
(* column x to the column's bytes; the slice has the same bytes in each of *)
(* its columns, so a slice is [data, width, pages, height_px] with data    *)
(* the bytes of one column.  h holds the arguments, the display before the *)
(* call and whether the call has been made.                                *)
(***************************************************************************)
DisplayColumns == 0 .. OLED_DISPLAY_WIDTH - 1

\* draw_slice_px with its horizontal clipping: the columns x_px .. x_px+w-1
\* are drawn, each as draw_slice_px draws a column.
draw_slice_px_xy(display, sl, x_px, y_px) ==
    IF sl.width = 0 \/ sl.pages = 0 THEN display
    ELSE IF x_px >= OLED_DISPLAY_WIDTH \/ y_px >= OLED_DISPLAY_HEIGHT THEN display
    ELSE LET ww == IF x_px + sl.width > OLED_DISPLAY_WIDTH
                   THEN OLED_DISPLAY_WIDTH - x_px ELSE sl.width
         IN  [x \in DisplayColumns |->
                 IF x >= x_px /\ x < x_px + ww
                 THEN draw_slice_px(display[x], sl, y_px)
                 ELSE display[x]]

\* The tallest slices a uint8_t page count can describe.
TallPages == 253

Blit2dSlices ==
    { [data |-> [p \in 1 .. pg |-> b], width |-> wd, pages |-> pg, height_px |-> hp] :
        b \in BlitBytes, wd \in {1, 3}, pg \in {1, 2, TallPages},
        hp \in {0, 5, 8, 13, 16} }

\* height_px, when given, lies in the slice's last page.
SliceConsistent(sl) ==
    sl.height_px = 0 \/ (sl.height_px > (sl.pages - 1) * 8 /\ sl.height_px <= sl.pages * 8)

Blit2dXs == {0, 126, 127, 128}

InitBlit2d ==
    /\ unit = "blit2d"
    /\ now = U32(0)
    /\ elapsed = 0
    /\ qt = ZeroQpToggle /\ qw = ZeroQpWidget /\ ts = ZeroTypingStats /\ rgb = ZeroRgbActivity
    /\ os = ZeroOneshot /\ ob = ZeroOutback /\ br = ZeroBootrev /\ un = ZeroUnified
    /\ a = ZeroAnimator
    /\ tog = ZeroToggle
    /\ lt = ZeroTransition
    /\ w = ZeroWidget
    /\ \E b \in BlitBytes : disp = [x \in DisplayColumns |-> [pg \in DisplayPages |-> b]]
    /\ \E sl \in Blit2dSlices, x_px \in Blit2dXs, y_px \in BlitYs :
        /\ SliceConsistent(sl)
        /\ h = [op |-> "args", slice |-> sl, x_px |-> x_px, y_px |-> y_px, before |-> disp]

DrawSlice ==
    /\ unit = "blit2d"
    /\ h.op = "args"
    /\ disp' = draw_slice_px_xy(disp, h.slice, h.x_px, h.y_px)
    /\ h' = [h EXCEPT !.op = "draw"]
    /\ UNCHANGED <<qt, qw, ts, rgb, os, ob, br, un, unit, now, elapsed, a, tog, lt, w>>

NextBlit2d == DrawSlice

SpecBlit2d == InitBlit2d /\ [][NextBlit2d]_vars

\* The rectangle [x, x+width) x [y, y+height) of the call.
InSliceRect(sl, x_px, y_px, x, row) ==
    /\ x >= x_px /\ x < x_px + sl.width
    /\ row >= y_px
    /\ row < y_px + (IF sl.height_px # 0 THEN sl.height_px ELSE sl.pages * 8)

\* C38 as stated: draw_slice_px leaves every display bit outside the
\* rectangle [x, x+width) x [y, y+height) as it was, at every vertical
\* offset and for heights that are multiples of 8 or arbitrary.
C38_DrawSliceFrame ==
    (unit = "blit2d" /\ h.op = "draw") =>
        \A x \in DisplayColumns, pg \in DisplayPages, b \in Bits :
            ~InSliceRect(h.slice, h.x_px, h.y_px, x, pg * 8 + b)
                => ((b \in disp[x][pg]) <=> (b \in h.before[x][pg]))


(***************************************************************************)
(* Unit "ts": typing_stats persistence.  ts.stored is the user datablock,  *)
(* ts.g_blob the RAM copy.  A 32-bit word is the set of its set bit        *)
(* positions; the blob is serialised little-endian in field order with     *)
(* the counters reduced to one byte each.  h records the last operation    *)
(* and the datablock as ts_load read it.                                   *)
(***************************************************************************)
Bits32 == 0 .. 31

Pow2[n \in 0 .. 31] == IF n = 0 THEN 1 ELSE 2 * Pow2[n - 1]

\* The bits of a number below 2^31.
BitsOf(n) == { i \in 0 .. 30 : (n \div Pow2[i]) % 2 = 1 }

Xor(x, y) == (x \ y) \cup (y \ x)

TS_MAGIC == BitsOf(1414738994)

TS_VERSION == 4

\* 0xEDB88320
CRC_POLY == {31, 30, 29, 27, 26, 24, 23, 21, 20, 19, 15, 9, 8, 5}

\* crc = (crc >> 1) ^ (0xEDB88320u & (-(int32_t)(crc & 1)))
CrcShift(crc) ==
    LET sh == { i - 1 : i \in crc \ {0} }
    IN  IF 0 \in crc THEN Xor(sh, CRC_POLY) ELSE sh

\* crc ^= data[i], then the eight shifts.
CrcByte(crc, byte) ==
    CrcShift(CrcShift(CrcShift(CrcShift(CrcShift(CrcShift(CrcShift(CrcShift(
        Xor(crc, byte)))))))))

RECURSIVE CrcBytes(_, _, _)
CrcBytes(crc, data, i) ==
    IF i > Len(data) THEN crc
    ELSE LET next == CrcByte(crc, data[i])
         IN  IF next \subseteq Bits32 THEN CrcBytes(next, data, i + 1) ELSE next

crc32_update(crc, data) == Bits32 \ CrcBytes(Bits32 \ crc, data, 1)

\* Byte k of a word, as a set of bit positions 0..7.
ByteOf(word, k) == { i - 8 * k : i \in { j \in word : j >= 8 * k /\ j < 8 * k + 8 } }

\* The bytes of the blob in memory.
BlobBytes(b) ==
    << ByteOf(b.magic, 0), ByteOf(b.magic, 1), ByteOf(b.magic, 2), ByteOf(b.magic, 3),
       ByteOf(BitsOf(b.version), 0), ByteOf(BitsOf(b.version), 1),
       BitsOf(b.total_presses), BitsOf(b.session_start_time),
       ByteOf(b.crc32, 0), ByteOf(b.crc32, 1), ByteOf(b.crc32, 2), ByteOf(b.crc32, 3) >>

\* The CRC of the blob with its crc32 field zeroed.
BlobCrc(b) == crc32_update(Bits32, BlobBytes([b EXCEPT !.crc32 = {}]))

ts_default_blob == [ZeroBlob EXCEPT !.magic = TS_MAGIC, !.version = TS_VERSION]

\* ts_save_if_needed on the statics t.
ts_save_if_needed(t, force) ==
    IF ~t.g_loaded THEN t
    ELSE IF ~t.g_dirty /\ ~force THEN t
    ELSE LET blob == [t.g_blob EXCEPT !.crc32 = BlobCrc(t.g_blob)]
         IN  [t EXCEPT !.g_blob = blob, !.stored = blob,
                       !.g_dirty = FALSE, !.g_event_ctr = 0]

\* The test ts_load applies to the blob it has read.
BlobOk(b) ==
    /\ b.magic = TS_MAGIC /\ b.version = TS_VERSION
    /\ BlobCrc(b) = b.crc32

ts_load(t) ==
    IF t.g_loaded THEN t
    ELSE LET t1 == [t EXCEPT !.g_blob = t.stored]
             t2 == IF BlobOk(t1.g_blob) THEN t1
                   ELSE ts_save_if_needed(
                            [t1 EXCEPT !.g_blob = ts_default_blob, !.g_dirty = TRUE], TRUE)
         IN  [t2 EXCEPT !.g_loaded = TRUE]

\* ts_start_new_session; the timer reads a nonzero time.
ts_start_new_session(t) ==
    [t EXCEPT !.g_blob.session_start_time = 1, !.g_dirty = TRUE]

ts_init(t) ==
    LET t1 == ts_load(t)
    IN  IF t1.g_blob.session_start_time = 0 THEN ts_start_new_session(t1) ELSE t1

\* Datablocks found at power-up: written by this firmware, by an older
\* one, erased, or damaged in the counters or in the CRC.
StoredMagics == { TS_MAGIC, BitsOf(1414738993), Bits32 }

StoredVersions == { TS_VERSION, 3, 65535 }

MaxPresses == 2

StoredBlobs ==
    { [magic |-> m, version |-> v, total_presses |-> n,
       session_start_time |-> st, crc32 |-> c] :
        m \in StoredMagics, v \in StoredVersions, n \in 0 .. MaxPresses,
        st \in {0, 1}, c \in { {}, Bits32 } }
    \cup
    { [b EXCEPT !.crc32 = BlobCrc(b)] :
        b \in { [magic |-> m, version |-> v, total_presses |-> n,
                 session_start_time |-> st, crc32 |-> {}] :
                  m \in StoredMagics, v \in StoredVersions, n \in 0 .. MaxPresses,
                  st \in {0, 1} } }

InitTs ==
    /\ unit = "ts"
    /\ now = U32(0)
    /\ elapsed = 0
    /\ qt = ZeroQpToggle /\ qw = ZeroQpWidget /\ rgb = ZeroRgbActivity
    /\ os = ZeroOneshot /\ ob = ZeroOutback /\ br = ZeroBootrev /\ un = ZeroUnified
    /\ a = ZeroAnimator
    /\ tog = ZeroToggle
    /\ lt = ZeroTransition
    /\ w = ZeroWidget
    /\ disp = NoFrame
    /\ \E b \in StoredBlobs : ts = [ZeroTypingStats EXCEPT !.stored = b]
    /\ h = [op |-> "boot", read |-> ts.stored]

TsRest == UNCHANGED <<qt, qw, rgb, os, ob, br, un, unit, now, elapsed, a, tog, lt, w, disp>>

\* ts_init at keyboard start.
TsInit ==
    /\ unit = "ts"
    /\ ~ts.g_loaded
    /\ ts' = ts_init(ts)
    /\ h' = [op |-> "init", read |-> ts.stored]
    /\ TsRest

\* ts_on_keyevent for a key press.
TsKeyEvent ==
    /\ unit = "ts"
    /\ ts.g_loaded
    /\ ts.g_blob.total_presses < MaxPresses
    /\ ts' = [ts EXCEPT !.g_blob.total_presses = @ + 1, !.g_dirty = TRUE,
                        !.g_event_ctr = @ + 1]
    /\ h' = [h EXCEPT !.op = "key"]
    /\ TsRest

\* ts_force_flush
TsForceFlush ==
    /\ unit = "ts"
    /\ ts' = ts_save_if_needed(ts, TRUE)
    /\ h' = [h EXCEPT !.op = "flush"]
    /\ TsRest

NextTs == TsInit \/ TsKeyEvent \/ TsForceFlush

SpecTs == InitTs /\ [][NextTs]_vars

\* C39 as stated: ts_load keeps the stored blob exactly when magic, version
\* and CRC match; otherwise the RAM blob is the default blob and, when
\* ts_load returns, storage holds a valid default blob.
C39_LoadValidatesAndWritesBack ==
    (unit = "ts" /\ h.op = "init") =>
        IF BlobOk(h.read)
        THEN /\ ts.g_blob.magic = h.read.magic
             /\ ts.g_blob.total_presses = h.read.total_presses
             /\ ts.stored = h.read
        ELSE /\ ts.g_blob.magic = TS_MAGIC /\ ts.g_blob.version = TS_VERSION
             /\ ts.g_blob.total_presses = 0
             /\ BlobOk(ts.stored)
             /\ ts.stored.total_presses = 0


(***************************************************************************)
(* Unit "rgb": rgb_activity.  The fade configuration is the build's: src/  *)
(* defines none of RGB_FADE_START_TIMEOUT, RGB_FADE_STEP_INTERVAL,         *)
(* RGB_FADE_IN_STEP_INTERVAL, RGB_FADE_MIN_BRIGHTNESS,                     *)
(* RGB_FADE_MIN_SATURATION, RGB_MATRIX_TIMEOUT and the matrix's step       *)
(* sizes.  The model takes a configuration in which a fade-in from dark    *)
(* needs more steps than fit between a key press and the fade timeout.     *)
(* h counts the key events and records, at a key press, whether the        *)
(* matrix was faded and the original values at that moment.                *)
(***************************************************************************)
RGB_FADE_START_TIMEOUT == 300

RGB_MATRIX_TIMEOUT == 600

RGB_FADE_STEP_INTERVAL == 60

RGB_FADE_IN_STEP_INTERVAL == 100

RGB_FADE_MIN_BRIGHTNESS == 0

RGB_FADE_MIN_SATURATION == 0

RGB_MATRIX_VAL_STEP == 32

RGB_MATRIX_SAT_STEP == 64

\* rgb_activity_update is called once in RgbTickMs milliseconds.
RgbTickMs == 20

MaxKeys == 3

AtMost(x, cap) == IF x > cap THEN cap ELSE x

\* qadd8 and qsub8 of the matrix's increase and decrease functions.
rgb_matrix_increase(v, step) == AtMost(v + step, Uint8 - 1)

rgb_matrix_decrease(v, step) == IF v < step THEN 0 ELSE v - step

save_original_state(r) ==
    [r EXCEPT !.original_brightness = r.val, !.original_saturation = r.sat,
              !.state_saved = TRUE]

start_fade_out(r) ==
    [r EXCEPT !.current_state = "RGB_ACTIVITY_FADING_OUT", !.fade_out_age = 0]

start_fade_in(r) ==
    [r EXCEPT !.current_state = "RGB_ACTIVITY_FADING_IN", !.fade_in_age = 0]

handle_fade_out_step(r) ==
    IF r.fade_out_age >= RGB_FADE_STEP_INTERVAL
       /\ (r.val > RGB_FADE_MIN_BRIGHTNESS \/ r.sat > RGB_FADE_MIN_SATURATION)
    THEN [r EXCEPT !.val = rgb_matrix_decrease(r.val, RGB_MATRIX_VAL_STEP),
                   !.sat = rgb_matrix_decrease(r.sat, RGB_MATRIX_SAT_STEP),
                   !.fade_out_age = 0]
    ELSE r

handle_fade_in_step(r) ==
    IF r.fade_in_age >= RGB_FADE_IN_STEP_INTERVAL
    THEN (IF r.val < r.original_brightness \/ r.sat < r.original_saturation
          THEN [r EXCEPT !.val = rgb_matrix_increase(r.val, RGB_MATRIX_VAL_STEP),
                         !.sat = rgb_matrix_increase(r.sat, RGB_MATRIX_SAT_STEP),
                         !.fade_in_age = 0]
          ELSE [r EXCEPT !.current_state = "RGB_ACTIVITY_NORMAL", !.state_saved = FALSE])
    ELSE r

rgb_activity_update(r, inactivity_time_ms) ==
    LET r1 == IF ~r.state_saved /\ r.current_state = "RGB_ACTIVITY_NORMAL"
              THEN save_original_state(r) ELSE r
        r2 == IF inactivity_time_ms < RGB_FADE_START_TIMEOUT
              THEN (IF r1.current_state = "RGB_ACTIVITY_FADING_IN"
                    THEN handle_fade_in_step(r1) ELSE r1)
              ELSE (IF r1.current_state = "RGB_ACTIVITY_FADING_IN"
                    THEN [r1 EXCEPT !.current_state = "RGB_ACTIVITY_NORMAL",
                                    !.state_saved = FALSE]
                    ELSE r1)
    IN  IF /\ r2.current_state # "RGB_ACTIVITY_FADING_IN"
           /\ inactivity_time_ms >= RGB_FADE_START_TIMEOUT
           /\ inactivity_time_ms < RGB_MATRIX_TIMEOUT
        THEN handle_fade_out_step(
                 IF r2.current_state # "RGB_ACTIVITY_FADING_OUT"
                 THEN start_fade_out(r2) ELSE r2)
        ELSE r2

\* The test of process_record_rgb_activity for a key press.
RgbFaded(r) ==
    \/ r.current_state = "RGB_ACTIVITY_FADING_OUT"
    \/ r.val < r.original_brightness
    \/ r.sat < r.original_saturation

process_record_rgb_activity(r, pressed) ==
    IF ~pressed THEN r
    ELSE IF RgbFaded(r) /\ r.state_saved THEN start_fade_in(r)
    ELSE r

\* keyboard_post_init_rgb_activity, with the matrix at the user's setting.
InitRgb ==
    /\ unit = "rgb"
    /\ now = U32(0)
    /\ elapsed = 0
    /\ qt = ZeroQpToggle /\ qw = ZeroQpWidget /\ ts = ZeroTypingStats
    /\ os = ZeroOneshot /\ ob = ZeroOutback /\ br = ZeroBootrev /\ un = ZeroUnified
    /\ a = ZeroAnimator
    /\ tog = ZeroToggle
    /\ lt = ZeroTransition
    /\ w = ZeroWidget
    /\ disp = NoFrame
    /\ \E v \in {128, 255}, s \in {128, 255} :
        rgb = [ZeroRgbActivity EXCEPT !.val = v, !.sat = s]
    /\ h = [op |-> "boot", keys |-> 0, faded |-> FALSE, saved_val |-> 0, saved_sat |-> 0]

RgbRest == UNCHANGED <<qt, qw, ts, os, ob, br, un, unit, now, elapsed, a, tog, lt, w, disp>>

\* rgb_matrix_indicators_rgb_activity, RgbTickMs after the previous call.
RgbUpdate ==
    /\ unit = "rgb"
    /\ LET inact == AtMost(rgb.inactivity + RgbTickMs, RGB_MATRIX_TIMEOUT)
           aged  == [rgb EXCEPT
                       !.inactivity = inact,
                       !.fade_out_age = AtMost(@ + RgbTickMs, RGB_FADE_STEP_INTERVAL),
                       !.fade_in_age = AtMost(@ + RgbTickMs, RGB_FADE_IN_STEP_INTERVAL)]
       IN  rgb' = rgb_activity_update(aged, inact)
    /\ h' = [h EXCEPT !.op = "update"]
    /\ RgbRest

\* A key event: the input activity timer restarts, then
\* process_record_rgb_activity sees the event.
RgbKey ==
    /\ unit = "rgb"
    /\ h.keys < MaxKeys
    /\ \E pressed \in BOOLEAN :
        /\ rgb' = process_record_rgb_activity([rgb EXCEPT !.inactivity = 0], pressed)
        /\ h' = IF pressed
                THEN [op |-> "key", keys |-> h.keys + 1, faded |-> RgbFaded(rgb),
                      saved_val |-> rgb.original_brightness,
                      saved_sat |-> rgb.original_saturation]
                ELSE [h EXCEPT !.op = "release", !.keys = @ + 1]
    /\ RgbRest

NextRgb == RgbUpdate \/ RgbKey

\* rgb_activity_update is called regularly.
SpecRgb == InitRgb /\ [][NextRgb]_vars /\ WF_vars(RgbUpdate)

\* C40 as stated: a key press while the matrix is faded or fading out leads
\* to NORMAL with value and saturation no lower than the saved originals.
C40_KeyPressRecovers ==
    (unit = "rgb" /\ h.op = "key" /\ h.faded)
        ~> (/\ rgb.current_state = "RGB_ACTIVITY_NORMAL"
            /\ rgb.val >= h.saved_val
            /\ rgb.sat >= h.saved_sat)

====
